---- MODULE Spec2Model ----
(***************************************************************************)
(* Verification model of the reflect core of clay-react:                   *)
(*   - the encoding parser and the process-wide type cache                 *)
(*     (src/reflect/src/reflect.c, parse_type and its helpers),            *)
(*   - the JSON encoder value_to_json and the JSON decoder json_to_value.  *)
(* Encoding strings are TLA+ strings read character by character; types    *)
(* are records that mirror struct Type / struct Field.                     *)
(* Platform: LP64, two's complement, plain char signed (x86-64 Linux).     *)
(***************************************************************************)
EXTENDS Integers, Sequences, FiniteSets, TLC

VARIABLES
    type_cache,   \* the type cache: sequence of [name, type] (type_cache_count = Len)
    calls,        \* record of the parse_type calls made so far, oldest first
    job,          \* the codec operation under way: schema, memory, document
    result        \* outcome of the codec operation

vars == <<type_cache, calls, job, result>>

----------------------------------------------------------------------------
(* Bounds of the model *)

\* number of parse_type calls in one behaviour
MaxCalls == 2

----------------------------------------------------------------------------
(* Characters and C string helpers *)

\* the terminating NUL of a C string, and the value of zeroed char storage
NUL == ""

\* s[i] of a NUL-terminated string (1-based); reading at the terminator gives NUL
At(s, i) == IF i >= 1 /\ i <= Len(s) THEN SubSeq(s, i, i) ELSE NUL

\* position of character c in the string tbl, 0 when absent
IndexIn(tbl, c) ==
    LET hits == {i \in 1..Len(tbl) : SubSeq(tbl, i, i) = c}
    IN IF hits = {} THEN 0 ELSE CHOOSE i \in hits : \A j \in hits : i <= j

\* the characters with codes 32..126 in order; the double quote (34), the
\* backslash (92) and the backquote (96) stand as blanks
Ascii32 ==
    " ! #$%&'()*+,-./0123456789:;<=>?@ABCDEFGHIJKLMNOPQRSTUVWXYZ[ ]^_ abcdefghijklmnopqrstuvwxyz{|}~"

\* the numeric (ASCII) value of a character
Ord(c) ==
    IF c = NUL THEN 0
    ELSE IF c = "\\" THEN 92
    ELSE 31 + IndexIn(Ascii32, c)

\* strpbrk / strchr: position of the first character of `set` at or after p, 0 when none
strpbrk(s, p, set) ==
    LET hits == {i \in p..Len(s) : At(s, i) \in set}
    IN IF hits = {} THEN 0 ELSE CHOOSE i \in hits : \A j \in hits : i <= j

\* strncmp(s + p, prefix, Len(prefix)) == 0
HasPrefixAt(s, p, prefix) ==
    /\ p + Len(prefix) - 1 <= Len(s)
    /\ SubSeq(s, p, p + Len(prefix) - 1) = prefix

Digits == {"0", "1", "2", "3", "4", "5", "6", "7", "8", "9"}

DigitVal(c) == Ord(c) - 48

\* end of the longest run of characters of `set` starting at p (first position after it)
RECURSIVE SpanEnd(_, _, _)
SpanEnd(s, p, set) == IF At(s, p) \in set THEN SpanEnd(s, p + 1, set) ELSE p

\* value of the decimal digits s[a..b-1]
RECURSIVE DecValue(_, _, _, _)
DecValue(s, a, b, acc) ==
    IF a >= b THEN acc ELSE DecValue(s, a + 1, b, acc * 10 + DigitVal(At(s, a)))

\* strtol(s + p, &endptr, 10): leading white space, an optional sign, digits.
\* q is the position after the white space, e the end of the digits;
\* end = p when no digits were converted.
strtol_digits(s, p, q, sg, e) ==
    IF e = sg THEN [val |-> 0, end |-> p]
    ELSE [val |-> IF At(s, q) = "-" THEN 0 - DecValue(s, sg, e, 0)
                  ELSE DecValue(s, sg, e, 0),
          end |-> e]

strtol_sign(s, p, q, sg) == strtol_digits(s, p, q, sg, SpanEnd(s, sg, Digits))

strtol_space(s, p, q) ==
    strtol_sign(s, p, q, IF At(s, q) \in {"-", "+"} THEN q + 1 ELSE q)

strtol(s, p) == strtol_space(s, p, SpanEnd(s, p, {" "}))

\* bitwise or of two small flag words (three bits are enough for the model)
BitOr(a, b) ==
    LET bit(x, k) == (x \div k) % 2
        or(k) == IF bit(a, k) = 1 \/ bit(b, k) = 1 THEN k ELSE 0
    IN or(1) + or(2) + or(4)

TypeModifiers_CONST == 1

----------------------------------------------------------------------------
(* struct Type and struct Field *)

\* a zero-initialised struct Type (TypeType_PRIMITIVE is enumerator 0)
ZeroType ==
    [type |-> "PRIMITIVE", modifiers |-> 0, hash |-> 0, primitive |-> NUL,
     name |-> "", fields |-> <<>>, length |-> 0, sub |-> <<>>]

\* a struct Type obtained from type_malloc and not initialised: parse_type only
\* ever ors into modifiers, so the pointee and array element types start from
\* whatever the allocator returned (g)
UninitType(g) == [ZeroType EXCEPT !.modifiers = g]

PrimitiveCodes ==
    {"c", "C", "s", "S", "i", "I", "l", "L", "q", "Q", "f", "d", "D", "*", "v", "B"}

primitive_type_size(code) ==
    CASE code \in {"c", "C", "B"} -> 1
      [] code \in {"s", "S"} -> 2
      [] code \in {"i", "I", "f"} -> 4
      [] code \in {"l", "L", "q", "Q", "d", "*", "^"} -> 8
      [] code = "D" -> 16
      [] OTHER -> 0

align_up_size(offset, align) ==
    IF align <= 1 THEN offset ELSE ((offset + align - 1) \div align) * align

MaxOf(S) == IF S = {} THEN 0 ELSE CHOOSE x \in S : \A y \in S : y <= x

RECURSIVE type_alignment(_)
type_alignment(t) ==
    CASE t.type = "PRIMITIVE" -> MaxOf({1, primitive_type_size(t.primitive)})
      [] t.type = "POINTER" -> 8
      [] t.type = "ARRAY" -> type_alignment(t.sub[1])
      [] OTHER -> MaxOf({1} \cup {type_alignment(t.fields[i].type) : i \in DOMAIN t.fields})

RECURSIVE type_size(_)
type_size(t) ==
    CASE t.type = "PRIMITIVE" -> primitive_type_size(t.primitive)
      [] t.type = "POINTER" -> 8
      [] t.type = "ARRAY" -> t.length * type_size(t.sub[1])
      [] t.type = "STRUCT" ->
            IF t.fields = <<>> THEN 0
            ELSE LET lastf == t.fields[Len(t.fields)]
                 IN align_up_size(lastf.offset + type_size(lastf.type), type_alignment(t))
      [] OTHER ->
            align_up_size(MaxOf({type_size(t.fields[i].type) : i \in DOMAIN t.fields}),
                          type_alignment(t))

----------------------------------------------------------------------------
(* Structural hash. The model's names and nesting keep every hash below    *)
(* 2^31, where the uint64_t arithmetic of the source does not wrap.        *)

RECURSIVE hash_data(_, _, _)
hash_data(s, i, hash) ==
    IF i > Len(s) THEN hash
    ELSE hash_data(s, i + 1, Ord(At(s, i)) + hash * 64 + hash * 65536 - hash)

RECURSIVE hash_type(_)
RECURSIVE hash_fields(_, _)

\* the sum of the members' hashes, from member i on
hash_fields(fields, i) ==
    IF i > Len(fields) THEN 0
    ELSE hash_type(fields[i].type) + hash_fields(fields, i + 1)

hash_type(t) ==
    t.modifiers +
    CASE t.type = "PRIMITIVE" -> Ord(t.primitive)
      [] t.type \in {"STRUCT", "UNION"} ->
            hash_data(t.name, 1, 0) + hash_fields(t.fields, 1)
            + (IF t.type = "UNION" THEN Ord("(") ELSE 0)
      [] t.type = "ARRAY" -> t.length * hash_type(t.sub[1])
      [] OTHER -> hash_type(t.sub[1]) * 31 + Ord("^")

----------------------------------------------------------------------------
(* The type cache *)

RECURSIVE clone_type(_)
clone_type(src) ==
    [type |-> src.type,
     modifiers |-> src.modifiers,
     hash |-> src.hash,
     primitive |-> IF src.type = "PRIMITIVE" THEN src.primitive ELSE NUL,
     name |-> IF src.type \in {"STRUCT", "UNION"} THEN src.name ELSE "",
     fields |-> IF src.type \in {"STRUCT", "UNION"}
                THEN [i \in DOMAIN src.fields |->
                        [name |-> src.fields[i].name,
                         offset |-> src.fields[i].offset,
                         length_field_name |-> src.fields[i].length_field_name,
                         modifiers |-> src.fields[i].modifiers,
                         type |-> clone_type(src.fields[i].type)]]
                ELSE <<>>,
     length |-> IF src.type = "ARRAY" THEN src.length ELSE 0,
     sub |-> IF src.type \in {"ARRAY", "POINTER"} THEN <<clone_type(src.sub[1])>> ELSE <<>>]

\* index of the first cache entry with this name, 0 when none
FirstNamed(cache, name) ==
    LET hits == {i \in DOMAIN cache : cache[i].name = name}
    IN IF hits = {} THEN 0 ELSE CHOOSE i \in hits : \A j \in hits : i <= j

\* the insert is keyed by name and kind: an entry is added unless one with the
\* same name and the same kind exists
cache_type_definition_dup_name(cache, t) ==
    IF t.type \notin {"STRUCT", "UNION"} \/ Len(t.fields) = 0 THEN cache
    ELSE Append(cache, [name |-> t.name, type |-> clone_type(t)])

cache_type_definition(cache, t) ==
    IF t.type \notin {"STRUCT", "UNION"} THEN cache
    ELSE IF Len(t.fields) = 0 THEN cache
    ELSE IF \E i \in DOMAIN cache : cache[i].name = t.name /\ cache[i].type.type = t.type
         THEN cache
    ELSE Append(cache, [name |-> t.name, type |-> clone_type(t)])

\* the entry that the scan of lookup_cached_type stopped at (i, 0 when none)
lookup_cached_entry(t, cache, i) ==
    IF i = 0 THEN [found |-> FALSE, type |-> t]
    ELSE IF cache[i].type.type # t.type THEN [found |-> FALSE, type |-> t]
    ELSE [found |-> TRUE,
          type |-> [clone_type(cache[i].type)
                      EXCEPT !.modifiers = BitOr(cache[i].type.modifiers, t.modifiers)]]

\* [found, type]: the scan stops at the first entry with the name, whatever its kind
lookup_cached_type(t, name, cache) ==
    lookup_cached_entry(t, cache, FirstNamed(cache, name))

----------------------------------------------------------------------------
(* The encoding parser *)

\* the modifier segments of a field tag, from the position after the line number
RECURSIVE parse_modifiers(_, _, _, _)
RECURSIVE parse_modifier(_, _, _, _, _)

\* one modifier: q is its first character, sep the separator that ends it
parse_modifier(s, q, sep, mods, lfn) ==
    IF sep = 0 THEN [pos |-> q, modifiers |-> mods, length_field_name |-> lfn]
    ELSE parse_modifiers(s, sep,
            Append(mods, SubSeq(s, q, sep - 1)),
            IF HasPrefixAt(s, q, "sized_by_") THEN <<SubSeq(s, q + 9, sep - 1)>> ELSE lfn)

parse_modifiers(s, p, mods, lfn) ==
    IF At(s, p) # "$" THEN [pos |-> p, modifiers |-> mods, length_field_name |-> lfn]
    ELSE parse_modifier(s, p + 1, strpbrk(s, p + 1, {"$", "}", "="}), mods, lfn)

\* a field without a tag, the cursor left at pos
NoTag(rc, pos) ==
    [rc |-> rc, pos |-> pos, name |-> <<>>, modifiers |-> <<>>, length_field_name |-> <<>>]

\* the end of a tag: an optional '=' and a single optional '}'
parse_field_tag_end(s, name, m, p1) ==
    [rc |-> 0, pos |-> IF At(s, p1) = "}" THEN p1 + 1 ELSE p1, name |-> <<name>>,
     modifiers |-> m.modifiers, length_field_name |-> m.length_field_name]

parse_field_tag_modifiers(s, name, m) ==
    parse_field_tag_end(s, name, m, IF At(s, m.pos) = "=" THEN m.pos + 1 ELSE m.pos)

\* the tag after its "{$": e is the '$' that ends the field name
parse_field_tag_name(s, p, e) ==
    IF e = 0 THEN NoTag(1, p)
    ELSE parse_field_tag_modifiers(s, SubSeq(s, p, e - 1),
            parse_modifiers(s, strtol(s, e + 1).end, <<>>, <<>>))

\* the tag that follows a field's type: {$name$line$modifier...=}
parse_field_tag(s, p) ==
    IF At(s, p) # "{" THEN NoTag(2, p)
    ELSE IF At(s, p + 1) # "$" THEN NoTag(2, p + 1)
    ELSE parse_field_tag_name(s, p + 2, strpbrk(s, p + 2, {"$"}))

\* the outcome of a parse_type call: rc, *type, the cursor, the cache, and the
\* bare references resolved ("ref") and definitions completed ("def") in the
\* order they happened, each with the cache length at that moment and the
\* number of entries it added
Outcome(rc, t, pos, cache, events) ==
    [rc |-> rc, type |-> t, pos |-> pos, cache |-> cache, events |-> events]

\* the common exit of parse_type: type->hash = hash_type(*type); return 0
Hashed(t, pos, cache, events) ==
    Outcome(0, [t EXCEPT !.hash = hash_type(t)], pos, cache, events)

\* a record or union type that so far has its kind and its name
NamedType(t1, kind, name) ==
    [ZeroType EXCEPT !.type = kind, !.modifiers = t1.modifiers, !.hash = t1.hash,
                     !.name = name]

\* the cursor was at `from` when a parse_type call (ev = "call") or an
\* iteration of a member loop (ev = "member") began and at `to` when it ended;
\* rc is what the call returned
Moved(ev, from, to, rc) == [ev |-> ev, from |-> from, to |-> to, rc |-> rc]

\* the outcome r of the call that began with the cursor at p0
Returned(p0, r) == [r EXCEPT !.events = Append(@, Moved("call", p0, r.pos, r.rc))]

\* a member as the loop has filled it in
MakeField(t, tag, off) ==
    [type |-> t, name |-> tag.name, length_field_name |-> tag.length_field_name,
     modifiers |-> tag.modifiers, offset |-> off]

\* "(?=" at p: the wrapper of a tagged member
IsTaggedWrapper(s, p) == At(s, p) = "(" /\ At(s, p + 1) = "?" /\ At(s, p + 2) = "="

RECURSIVE parse_type(_, _, _, _, _)
RECURSIVE parse_fields(_, _, _, _, _, _, _, _)

\* the member loop left with return code rc; the member under construction stays
\* in the field list
fields_failed(rc, pos, acc, r, field) ==
    [rc |-> rc, pos |-> pos, fields |-> Append(acc.fields, field), cache |-> r.cache,
     events |-> acc.events \o r.events]

\* a member whose type r and tag have been read; off is its offset
parse_field_tagged(s, prev, wrapped, kind, closer, acc, offset, g, r, tag, off) ==
    IF tag.rc # 0 THEN fields_failed(1, tag.pos, acc, r, MakeField(r.type, tag, 0))
    ELSE IF wrapped /\ At(s, tag.pos) # ")"
    THEN fields_failed(2, tag.pos, acc, r, MakeField(r.type, tag, off))
    ELSE parse_fields(s, IF wrapped THEN tag.pos + 1 ELSE tag.pos, kind, closer,
                      [fields |-> Append(acc.fields, MakeField(r.type, tag, off)),
                       events |-> Append(acc.events \o r.events,
                                         Moved("member", IF wrapped THEN prev - 3 ELSE prev,
                                               IF wrapped THEN tag.pos + 1 ELSE tag.pos, 0))],
                      IF kind = "STRUCT" THEN off + type_size(r.type) ELSE offset,
                      r.cache, g)

parse_field_typed_packed(s, prev, wrapped, kind, closer, acc, offset, g, r) ==
    IF r.rc # 0 THEN fields_failed(1, r.pos, acc, r, MakeField(r.type, NoTag(0, 0), 0))
    ELSE IF r.pos = prev
    THEN fields_failed(2, r.pos, acc, r, MakeField(r.type, NoTag(0, 0), 0))
    ELSE parse_field_tagged(s, prev, wrapped, kind, closer, acc, offset, g, r,
            IF At(s, r.pos) = "{" /\ At(s, r.pos + 1) = "$"
            THEN parse_field_tag(s, r.pos) ELSE NoTag(0, r.pos),
            offset)

\* a member whose type has been read by the call r that started at prev
parse_field_typed(s, prev, wrapped, kind, closer, acc, offset, g, r) ==
    IF r.rc # 0 THEN fields_failed(1, r.pos, acc, r, MakeField(r.type, NoTag(0, 0), 0))
    ELSE IF r.pos = prev
    THEN fields_failed(2, r.pos, acc, r, MakeField(r.type, NoTag(0, 0), 0))
    ELSE parse_field_tagged(s, prev, wrapped, kind, closer, acc, offset, g, r,
            IF At(s, r.pos) = "{" /\ At(s, r.pos + 1) = "$"
            THEN parse_field_tag(s, r.pos) ELSE NoTag(0, r.pos),
            IF kind = "STRUCT" THEN align_up_size(offset, type_alignment(r.type)) ELSE 0)

\* The member loop of a record ('}') or union (')'). acc carries the fields built
\* so far and the events, offset the running offset.
parse_fields(s, p, kind, closer, acc, offset, cache, g) ==
    IF At(s, p) = closer
    THEN [rc |-> 0, pos |-> p + 1, fields |-> acc.fields, cache |-> cache,
          events |-> acc.events]
    ELSE parse_field_typed(s, IF IsTaggedWrapper(s, p) THEN p + 3 ELSE p,
            IsTaggedWrapper(s, p), kind, closer, acc, offset, g,
            parse_type(s, IF IsTaggedWrapper(s, p) THEN p + 3 ELSE p, ZeroType, cache, g))

\* only a name: t is the type after the lookup and the final hash
parse_reference_cached(t, found, pos, cache) ==
    Outcome(0, t, pos,
            IF found THEN cache ELSE Append(cache, [name |-> t.name, type |-> t]),
            <<[ev |-> "ref", found |-> found, type |-> t, ncache |-> Len(cache),
               added |-> 0]>>)

parse_reference(t, found, pos, cache) ==
    Outcome(0, t, pos, cache,
            <<[ev |-> "ref", found |-> found, type |-> t, ncache |-> Len(cache),
               added |-> 0]>>)

parse_reference_lookup(lk, pos, cache) ==
    parse_reference([lk.type EXCEPT !.hash = hash_type(lk.type)], lk.found, pos, cache)

\* a complete definition: built is the type when cache_type_definition is
\* called (its hash not yet computed), after the cache that call leaves
parse_definition_cached(built, fs, after) ==
    Hashed(built, fs.pos, after,
           Append(fs.events,
                  [ev |-> "def", found |-> FALSE, type |-> built,
                   ncache |-> Len(fs.cache), added |-> Len(after) - Len(fs.cache)]))

parse_definition_built(built, fs) ==
    IF fs.rc # 0 THEN Outcome(fs.rc, built, fs.pos, fs.cache, fs.events)
    ELSE parse_definition_cached(built, fs, cache_type_definition(fs.cache, built))

parse_definition(named, fs) ==
    parse_definition_built([named EXCEPT !.fields = fs.fields], fs)

\* a record {...} or a union (...): p is the position after the open marker,
\* endptr the first '=' or closer after it
parse_aggregate_name(s, p, endptr, t1, kind, closer, cache, g) ==
    IF endptr = 0 THEN Outcome(1, [t1 EXCEPT !.type = kind], p, cache, <<>>)
    ELSE IF At(s, endptr) = closer
    THEN parse_reference_lookup(
            lookup_cached_type(NamedType(t1, kind, SubSeq(s, p, endptr - 1)),
                               SubSeq(s, p, endptr - 1), cache),
            endptr + 1, cache)
    ELSE parse_definition(NamedType(t1, kind, SubSeq(s, p, endptr - 1)),
            parse_fields(s, endptr + 1, kind, closer, [fields |-> <<>>, events |-> <<>>],
                         0, cache, g))

parse_aggregate(s, p, t1, kind, closer, cache, g) ==
    parse_aggregate_name(s, p + 1, strpbrk(s, p + 1, {"=", closer}), t1, kind, closer,
                         cache, g)

\* a pointer whose pointee has been read by the call r
parse_pointer(t1, r) ==
    IF r.rc # 0
    THEN Outcome(1, [ZeroType EXCEPT !.type = "POINTER", !.modifiers = t1.modifiers,
                                     !.hash = t1.hash, !.sub = <<r.type>>],
                 r.pos, r.cache, r.events)
    ELSE Hashed([ZeroType EXCEPT !.type = "POINTER", !.modifiers = t1.modifiers,
                                 !.hash = t1.hash, !.sub = <<r.type>>],
                r.pos, r.cache, r.events)

\* parse_array_element that steps over what follows the element unseen
parse_array_element_unchecked(s, t, r) ==
    IF r.rc # 0 THEN Outcome(1, t, r.pos, r.cache, r.events)
    ELSE Hashed(t, r.pos + 1, r.cache, r.events)

\* an array whose length n and element type (call r) have been read
parse_array_element(s, t, r) ==
    IF r.rc # 0 THEN Outcome(1, t, r.pos, r.cache, r.events)
    ELSE IF At(s, r.pos) # "]" THEN Outcome(2, t, r.pos, r.cache, r.events)
    ELSE Hashed(t, r.pos + 1, r.cache, r.events)

parse_array_length(s, p, t1, n, cache, g, r) ==
    IF n.end = p THEN Outcome(1, [t1 EXCEPT !.type = "ARRAY"], p, cache, <<>>)
    ELSE parse_array_element(s,
            [ZeroType EXCEPT !.type = "ARRAY", !.modifiers = t1.modifiers,
                             !.hash = t1.hash, !.length = n.val, !.sub = <<r.type>>],
            r)

parse_array(s, p, t1, n, cache, g) ==
    parse_array_length(s, p, t1, n, cache, g,
                       parse_type(s, n.end, UninitType(g), cache, g))

\* the switch on the encoding character at p; t1 is *type after the const markers
parse_encoding(s, p, t1, cache, g) ==
    CASE At(s, p) = "^" ->
            parse_pointer(t1, parse_type(s, p + 1, UninitType(g), cache, g))
      [] At(s, p) \in PrimitiveCodes ->
            Hashed([ZeroType EXCEPT !.type = "PRIMITIVE", !.modifiers = t1.modifiers,
                                    !.hash = t1.hash, !.primitive = At(s, p)],
                   p + 1, cache, <<>>)
      [] At(s, p) \in {"{", "("} ->
            parse_aggregate(s, p, t1, IF At(s, p) = "{" THEN "STRUCT" ELSE "UNION",
                            IF At(s, p) = "{" THEN "}" ELSE ")", cache, g)
      [] At(s, p) = "[" -> parse_array(s, p + 1, t1, strtol(s, p + 1), cache, g)
      [] OTHER -> Hashed(t1, p, cache, <<>>)

\* int parse_type(struct Type *type, const char **str): t0 is *type on entry,
\* p0 the cursor, g what an uninitialised allocation holds during this call
parse_type(s, p0, t0, cache, g) ==
    Returned(p0,
        parse_encoding(s, SpanEnd(s, p0, {"r"}),
                       IF At(s, p0) = "r"
                       THEN [t0 EXCEPT !.modifiers = BitOr(t0.modifiers, TypeModifiers_CONST)]
                       ELSE t0,
                       cache, g))

----------------------------------------------------------------------------
(* Bytes, text and integer objects.                                        *)
(* Text (JSON source, C strings) is a sequence of byte values 0..255.      *)
(* An integer object of w bytes is the little-endian sequence of its       *)
(* bytes, so that every width up to 64 bits is exact; long long, unsigned  *)
(* long long and size_t values in flight are 8-byte sequences.             *)

\* the bytes of a C string written as a TLA+ string
Chars(s) == [i \in 1..Len(s) |-> Ord(At(s, i))]

\* JSON text written as a TLA+ string, with ' standing for the double quote
Json(s) == [i \in 1..Len(s) |-> IF At(s, i) = "'" THEN 34 ELSE Ord(At(s, i))]

\* n copies of byte c
Repeat(c, n) == [i \in 1..n |-> c]

\* the w-byte object that holds the small non-negative number n
RECURSIVE FromNat(_, _)
FromNat(n, w) == IF w = 0 THEN <<>> ELSE <<n % 256>> \o FromNat(n \div 256, w - 1)

\* the sign bit of an integer object
IsNegative(b) == b[Len(b)] >= 128

\* integer conversions: widening of a signed / an unsigned object, narrowing
SignExtend(b, w) ==
    [i \in 1..w |-> IF i <= Len(b) THEN b[i] ELSE IF IsNegative(b) THEN 255 ELSE 0]

ZeroExtend(b, w) == [i \in 1..w |-> IF i <= Len(b) THEN b[i] ELSE 0]

Truncate(b, w) == SubSeq(b, 1, w)

\* a < b for unsigned objects of one width, decided at the most significant
\* byte that differs (i runs down from the top)
RECURSIVE ULessFrom(_, _, _)
ULessFrom(a, b, i) ==
    IF i = 0 THEN FALSE
    ELSE IF a[i] # b[i] THEN a[i] < b[i]
    ELSE ULessFrom(a, b, i - 1)

ULess(a, b) == ULessFrom(a, b, Len(a))

\* a < b for signed (two's complement) objects of one width
SLess(a, b) == IF IsNegative(a) # IsNegative(b) THEN IsNegative(a) ELSE ULess(a, b)

\* b * m + carry, byte by byte from the least significant; the final carry is
\* what did not fit
RECURSIVE MulAdd(_, _, _, _, _)
MulAdd(b, m, carry, i, acc) ==
    IF i > Len(b) THEN [val |-> acc, carry |-> carry]
    ELSE MulAdd(b, m, (b[i] * m + carry) \div 256, i + 1,
                Append(acc, (b[i] * m + carry) % 256))

\* b divided by the small number m, byte by byte from the most significant
RECURSIVE DivMod(_, _, _, _, _)
DivMod(b, m, rem, i, acc) ==
    IF i = 0 THEN [quot |-> acc, rem |-> rem]
    ELSE DivMod(b, m, (rem * 256 + b[i]) % m, i - 1,
                <<(rem * 256 + b[i]) \div m>> \o acc)

\* two's complement negation
Negate(b) == MulAdd([i \in 1..Len(b) |-> 255 - b[i]], 1, 1, 1, <<>>).val

\* the least and the greatest value of a signed w-byte type, and the greatest
\* value of an unsigned one, each as a 64-bit value
SignedMin(w) == SignExtend([i \in 1..w |-> IF i = w THEN 128 ELSE 0], 8)
SignedMax(w) == SignExtend([i \in 1..w |-> IF i = w THEN 127 ELSE 255], 8)
UnsignedMax(w) == ZeroExtend([i \in 1..w |-> 255], 8)

\* the decimal digits of an unsigned object (printf %u / %llu), most
\* significant first
RECURSIVE FormatDigits(_, _)
RECURSIVE FormatDigit(_, _)
FormatDigit(d, acc) == FormatDigits(d.quot, <<48 + d.rem>> \o acc)

FormatDigits(b, acc) ==
    IF \A i \in DOMAIN b : b[i] = 0 THEN (IF acc = <<>> THEN <<48>> ELSE acc)
    ELSE FormatDigit(DivMod(b, 10, 0, Len(b), <<>>), acc)

\* printf %d / %ld / %lld of a signed object
FormatSigned(b) ==
    IF IsNegative(b) THEN <<45>> \o FormatDigits(Negate(b), <<>>)
    ELSE FormatDigits(b, <<>>)

\* isspace in the C locale
IsSpace(c) == c = 32 \/ (c >= 9 /\ c <= 13)

\* the value of c as a digit in the given base, -1 when it is none
DigitIn(c, base) ==
    IF c >= 48 /\ c <= 57 /\ c - 48 < base THEN c - 48
    ELSE IF c >= 97 /\ c <= 122 /\ c - 87 < base THEN c - 87
    ELSE IF c >= 65 /\ c <= 90 /\ c - 55 < base THEN c - 55
    ELSE 0 - 1

\* byte i of text t (1-based); 0, the terminator, beyond its end
ByteAt(t, i) == IF i >= 1 /\ i <= Len(t) THEN t[i] ELSE 0

\* the digit run of strtoll / strtoull from position i: the magnitude as a
\* 64-bit unsigned value, whether it overflowed 64 bits, and the end position
RECURSIVE ScanDigits(_, _, _, _, _)
RECURSIVE ScanDigit(_, _, _, _, _)
ScanDigit(t, i, base, r, over) == ScanDigits(t, i + 1, base, r.val, over \/ r.carry # 0)

ScanDigits(t, i, base, mag, over) ==
    IF DigitIn(ByteAt(t, i), base) < 0 THEN [mag |-> mag, over |-> over, end |-> i]
    ELSE ScanDigit(t, i, base, MulAdd(mag, base, DigitIn(ByteAt(t, i), base), 1, <<>>), over)

RECURSIVE SkipSpace(_, _)
SkipSpace(t, i) == IF IsSpace(ByteAt(t, i)) THEN SkipSpace(t, i + 1) ELSE i

\* position after an optional sign at i
AfterSign(t, i) == IF ByteAt(t, i) \in {43, 45} THEN i + 1 ELSE i

\* position after the 0x / 0 prefix that base 0 and base 16 accept, and the
\* base that results
NumberBase(t, i, base) ==
    IF base \in {0, 16} /\ ByteAt(t, i) = 48 /\ ByteAt(t, i + 1) \in {120, 88}
       /\ DigitIn(ByteAt(t, i + 2), 16) >= 0
    THEN [base |-> 16, pos |-> i + 2]
    ELSE IF base = 0 /\ ByteAt(t, i) = 48 THEN [base |-> 8, pos |-> i]
    ELSE IF base = 0 THEN [base |-> 10, pos |-> i]
    ELSE [base |-> base, pos |-> i]

\* what strtoll and strtoull share: sp is the position after the white space,
\* nb the base and the position of the first digit, d the digit run.
\* end = 1 (the start of the text) when no digit was converted.
strto_result(t, sp, nb, d, signed) ==
    IF d.end = nb.pos
    THEN [val |-> FromNat(0, 8), end |-> 1, erange |-> FALSE]
    ELSE IF signed
    THEN IF ByteAt(t, sp) = 45
         THEN IF d.over \/ ULess(SignedMin(8), d.mag)
              THEN [val |-> SignedMin(8), end |-> d.end, erange |-> TRUE]
              ELSE [val |-> Negate(d.mag), end |-> d.end, erange |-> FALSE]
         ELSE IF d.over \/ ULess(SignedMax(8), d.mag)
              THEN [val |-> SignedMax(8), end |-> d.end, erange |-> TRUE]
              ELSE [val |-> d.mag, end |-> d.end, erange |-> FALSE]
    ELSE IF d.over THEN [val |-> UnsignedMax(8), end |-> d.end, erange |-> TRUE]
    ELSE [val |-> IF ByteAt(t, sp) = 45 THEN Negate(d.mag) ELSE d.mag,
          end |-> d.end, erange |-> FALSE]

strto_digits(t, sp, nb, signed) ==
    strto_result(t, sp, nb, ScanDigits(t, nb.pos, nb.base, FromNat(0, 8), FALSE), signed)

strto_space(t, sp, base, signed) ==
    strto_digits(t, sp, NumberBase(t, AfterSign(t, sp), base), signed)

\* strtoll(t, &endptr, base): the value, endptr as a position in t, and
\* whether errno became ERANGE
strtoll(t, base) == strto_space(t, SkipSpace(t, 1), base, TRUE)

\* strtoull(t, &endptr, base)
strtoull(t, base) == strto_space(t, SkipSpace(t, 1), base, FALSE)

----------------------------------------------------------------------------
(* The tokenizer the decoder is given (jsmn, non-strict, no parent links). *)
(* A token is [type, start, end, size]: start and end are 0-based offsets  *)
(* into the JSON text (a string token excludes its quotes), size counts    *)
(* the children: the keys of an object, the value of a key, the elements   *)
(* of an array. A failed parse returns a negative count.                   *)

JSMN_ERROR_NOMEM == 0 - 1
JSMN_ERROR_INVAL == 0 - 2
JSMN_ERROR_PART == 0 - 3

\* js[pos] for a 0-based pos
Js(js, pos) == ByteAt(js, pos + 1)

\* index (0-based) of the topmost token at or below i that is still open and
\* satisfies the container restriction, -1 when none
RECURSIVE jsmn_open_token(_, _, _)
jsmn_open_token(tokens, i, containers_only) ==
    IF i < 0 THEN 0 - 1
    ELSE IF tokens[i + 1].end = 0 - 1
            /\ (~containers_only \/ tokens[i + 1].type \in {"ARRAY", "OBJECT"})
    THEN i
    ELSE jsmn_open_token(tokens, i - 1, containers_only)

\* tokens[toksuper].size++ when there is a parent
jsmn_count_child(tokens, toksuper) ==
    IF toksuper = 0 - 1 THEN tokens
    ELSE [tokens EXCEPT ![toksuper + 1].size = @ + 1]

\* end of a primitive that starts at pos: the position of its delimiter, or of
\* the end of the text; -1 when it holds a byte outside printable ASCII
RECURSIVE jsmn_primitive_end(_, _, _)
jsmn_primitive_end(js, len, pos) ==
    IF pos >= len \/ Js(js, pos) = 0 THEN pos
    ELSE IF Js(js, pos) \in {58, 9, 13, 10, 32, 44, 93, 125} THEN pos
    ELSE IF Js(js, pos) < 32 \/ Js(js, pos) >= 127 THEN 0 - 1
    ELSE jsmn_primitive_end(js, len, pos + 1)

\* position after the up to four hexadecimal digits of a \u escape, -1 when
\* one of them is no hexadecimal digit
RECURSIVE jsmn_hex_end(_, _, _, _)
jsmn_hex_end(js, len, pos, i) ==
    IF ~(i < 4 /\ pos < len /\ Js(js, pos) # 0) THEN pos
    ELSE IF DigitIn(Js(js, pos), 16) < 0 THEN 0 - 1
    ELSE jsmn_hex_end(js, len, pos + 1, i + 1)

\* the first position from pos (0-based) below len whose byte is in stops;
\* len when there is none
NextStop(js, len, pos, stops) ==
    IF \E p \in pos..(len - 1) : Js(js, p) \in stops
    THEN CHOOSE p \in pos..(len - 1) :
            Js(js, p) \in stops /\ \A q \in pos..(p - 1) : Js(js, q) \notin stops
    ELSE len

\* end of a string whose first character is at pos: the position of its
\* closing quote, JSMN_ERROR_INVAL for a bad escape, JSMN_ERROR_PART when the
\* text ends first. The bytes before the next quote, backslash or NUL are
\* passed over in one step.
RECURSIVE jsmn_string_end(_, _, _)
jsmn_string_stop(js, len, pos) ==
    IF pos >= len \/ Js(js, pos) = 0 THEN JSMN_ERROR_PART
    ELSE IF Js(js, pos) = 34 THEN pos
    ELSE IF pos + 1 < len
    THEN IF Js(js, pos + 1) \in {34, 47, 92, 98, 102, 114, 110, 116}
         THEN jsmn_string_end(js, len, pos + 2)
         ELSE IF Js(js, pos + 1) = 117
         THEN IF jsmn_hex_end(js, len, pos + 2, 0) < 0 THEN JSMN_ERROR_INVAL
              ELSE jsmn_string_end(js, len, jsmn_hex_end(js, len, pos + 2, 0))
         ELSE JSMN_ERROR_INVAL
    ELSE jsmn_string_end(js, len, pos + 1)

jsmn_string_end(js, len, pos) ==
    jsmn_string_stop(js, len, NextStop(js, len, pos, {0, 34, 92}))

\* all tokens complete: the count; an open token: JSMN_ERROR_PART
jsmn_finish(tokens) ==
    IF \E i \in DOMAIN tokens : tokens[i].end = 0 - 1
    THEN [ret |-> JSMN_ERROR_PART, tokens |-> tokens]
    ELSE [ret |-> Len(tokens), tokens |-> tokens]

RECURSIVE jsmn_scan(_, _, _, _, _, _)

\* a closing bracket at pos: i is the innermost open token
jsmn_close(js, len, n, pos, tokens, type, i) ==
    IF i = 0 - 1 THEN [ret |-> JSMN_ERROR_INVAL, tokens |-> tokens]
    ELSE IF tokens[i + 1].type # type THEN [ret |-> JSMN_ERROR_INVAL, tokens |-> tokens]
    ELSE jsmn_scan(js, len, n, pos + 1, [tokens EXCEPT ![i + 1].end = pos + 1],
                   jsmn_open_token(tokens, i - 1, FALSE))

\* a string or primitive token [start, end) has been recognised
jsmn_leaf(js, len, n, next, tokens, toksuper, type, start, end) ==
    IF end < 0 THEN [ret |-> end, tokens |-> tokens]
    ELSE IF Len(tokens) >= n THEN [ret |-> JSMN_ERROR_NOMEM, tokens |-> tokens]
    ELSE jsmn_scan(js, len, n, next,
                   jsmn_count_child(
                       Append(tokens, [type |-> type, start |-> start, end |-> end,
                                       size |-> 0]),
                       toksuper),
                   toksuper)

\* the new parent after a comma
jsmn_comma(tokens, toksuper, container) ==
    IF toksuper # 0 - 1 /\ tokens[toksuper + 1].type \notin {"ARRAY", "OBJECT"}
       /\ container # 0 - 1
    THEN container ELSE toksuper

\* the main loop of jsmn_parse from position pos
jsmn_scan(js, len, n, pos, tokens, toksuper) ==
    IF pos >= len \/ Js(js, pos) = 0 THEN jsmn_finish(tokens)
    ELSE CASE Js(js, pos) \in {123, 91} ->
                IF Len(tokens) >= n THEN [ret |-> JSMN_ERROR_NOMEM, tokens |-> tokens]
                ELSE jsmn_scan(js, len, n, pos + 1,
                        Append(jsmn_count_child(tokens, toksuper),
                               [type |-> IF Js(js, pos) = 123 THEN "OBJECT" ELSE "ARRAY",
                                start |-> pos, end |-> 0 - 1, size |-> 0]),
                        Len(tokens))
           [] Js(js, pos) \in {125, 93} ->
                jsmn_close(js, len, n, pos, tokens,
                           IF Js(js, pos) = 125 THEN "OBJECT" ELSE "ARRAY",
                           jsmn_open_token(tokens, Len(tokens) - 1, FALSE))
           [] Js(js, pos) = 34 ->
                jsmn_leaf(js, len, n, jsmn_string_end(js, len, pos + 1) + 1, tokens,
                          toksuper, "STRING", pos + 1, jsmn_string_end(js, len, pos + 1))
           [] Js(js, pos) \in {9, 13, 10, 32} ->
                jsmn_scan(js, len, n, pos + 1, tokens, toksuper)
           [] Js(js, pos) = 58 ->
                jsmn_scan(js, len, n, pos + 1, tokens, Len(tokens) - 1)
           [] Js(js, pos) = 44 ->
                jsmn_scan(js, len, n, pos + 1, tokens,
                          jsmn_comma(tokens, toksuper,
                                     jsmn_open_token(tokens, Len(tokens) - 1, TRUE)))
           [] OTHER ->
                jsmn_leaf(js, len, n, jsmn_primitive_end(js, len, pos), tokens, toksuper,
                          "PRIMITIVE", pos,
                          IF jsmn_primitive_end(js, len, pos) < 0 THEN JSMN_ERROR_INVAL
                          ELSE jsmn_primitive_end(js, len, pos))

\* jsmn_parse(&parser, js, len, tokens, num_tokens) on a fresh parser
jsmn_parse(js, len, num_tokens) == jsmn_scan(js, len, num_tokens, 0, <<>>, 0 - 1)

----------------------------------------------------------------------------
(* Memory. An object is a block [bytes, heap]: bytes is its storage, heap  *)
(* maps the offset of every non-null pointer stored in it to the block the *)
(* pointer refers to. Addresses are not modelled beyond null / non-null: a *)
(* null pointer is eight zero bytes, any other pointer is HeapAddress.     *)

ZeroBlock(n) == [bytes |-> Repeat(0, n), heap |-> <<>>]

HeapAddress == <<1, 0, 0, 0, 0, 0, 0, 0>>

\* the w bytes at offset off
Load(mem, off, w) == SubSeq(mem.bytes, off + 1, off + w)

\* the bytes b written at offset off
Store(mem, off, b) ==
    [mem EXCEPT !.bytes = [i \in 1..Len(@) |->
                             IF i > off /\ i <= off + Len(b) THEN b[i - off] ELSE @[i]]]

\* *(void **)(data + off) == nullptr
IsNullAt(mem, off) == \A i \in 1..8 : mem.bytes[off + i] = 0

\* the block a non-null pointer at offset off refers to
Pointee(mem, off) == mem.heap[off]

\* *(void **)(data + off) = <address of block>
StorePointer(mem, off, block) ==
    [bytes |-> Store(mem, off, HeapAddress).bytes,
     heap |-> [o \in DOMAIN mem.heap \cup {off} |->
                 IF o = off THEN block ELSE mem.heap[o]]]

\* *(void **)(data + off) = nullptr
StoreNull(mem, off) ==
    [bytes |-> Store(mem, off, Repeat(0, 8)).bytes,
     heap |-> [o \in DOMAIN mem.heap \ {off} |-> mem.heap[o]]]

\* the block malloc'ed for a decoded C string: the bytes and the terminator
TextBlock(text) == [bytes |-> text \o <<0>>, heap |-> <<>>]

\* the C string that starts at byte i (1-based) of a byte sequence
RECURSIVE CString(_, _, _)
CString(bytes, i, acc) ==
    IF i > Len(bytes) \/ bytes[i] = 0 THEN acc ELSE CString(bytes, i + 1, Append(acc, bytes[i]))

----------------------------------------------------------------------------
(* Field modifiers as the codec reads them *)

field_has_modifier(field, modifier) ==
    \E i \in DOMAIN field.modifiers : field.modifiers[i] = modifier

\* what follows the prefix in the first modifier that starts with it, as a
\* one-element sequence; <<>> (a null pointer) when there is none
RECURSIVE ModifierAfter(_, _, _)
ModifierAfter(mods, prefix, k) ==
    IF k > Len(mods) THEN <<>>
    ELSE IF HasPrefixAt(mods[k], 1, prefix)
    THEN <<SubSeq(mods[k], Len(prefix) + 1, Len(mods[k]))>>
    ELSE ModifierAfter(mods, prefix, k + 1)

\* json_field_json_key that disregards the modifiers
json_field_json_key_name(field) == field.name

json_field_json_key(field) ==
    IF field.name = <<>> THEN <<>>
    ELSE IF ModifierAfter(field.modifiers, "serialise_as_", 1) # <<>>
    THEN ModifierAfter(field.modifiers, "serialise_as_", 1)
    ELSE field.name

\* the modifier loop of json_field_length_name from modifier k
RECURSIVE json_field_length_scan(_, _)
json_field_length_scan(mods, k) ==
    IF k > Len(mods) THEN <<>>
    ELSE IF HasPrefixAt(mods[k], 1, "sized_by_")
    THEN <<SubSeq(mods[k], 10, Len(mods[k]))>>
    ELSE IF mods[k] = "sizedby" /\ k + 1 <= Len(mods) THEN <<mods[k + 1]>>
    ELSE json_field_length_scan(mods, k + 1)

json_field_length_name(field) ==
    IF field.length_field_name # <<>> THEN field.length_field_name
    ELSE json_field_length_scan(field.modifiers, 1)

\* the same search as value_to_json writes it: a "sizedby" modifier ends it
RECURSIVE target_length_scan(_, _)
target_length_scan(mods, k) ==
    IF k > Len(mods) THEN <<>>
    ELSE IF HasPrefixAt(mods[k], 1, "sized_by_")
    THEN <<SubSeq(mods[k], 10, Len(mods[k]))>>
    ELSE IF mods[k] = "sizedby"
    THEN (IF k + 1 <= Len(mods) THEN <<mods[k + 1]>> ELSE <<>>)
    ELSE target_length_scan(mods, k + 1)

target_length_field(field) ==
    IF field.length_field_name # <<>> THEN field.length_field_name
    ELSE target_length_scan(field.modifiers, 1)

json_field_tagged_by_name(field) == ModifierAfter(field.modifiers, "tagged_by_", 1)

json_union_field_tag_value(field) == ModifierAfter(field.modifiers, "tag_value_", 1)

\* index of the first field named `name`, 0 when none (json_find_field_index
\* returns -1, get_value the absent Value)
RECURSIVE FieldNamed(_, _, _)
FieldNamed(fields, name, i) ==
    IF i > Len(fields) THEN 0
    ELSE IF fields[i].name = <<name>> THEN i
    ELSE FieldNamed(fields, name, i + 1)

get_value_last(type, name) ==
    IF \A i \in DOMAIN type.fields : type.fields[i].name # <<name>> THEN 0
    ELSE CHOOSE i \in DOMAIN type.fields :
            /\ type.fields[i].name = <<name>>
            /\ \A j \in DOMAIN type.fields : type.fields[j].name = <<name>> => j <= i

get_value(type, name) == FieldNamed(type.fields, name, 1)

\* the struct Value that get_value returns for the value (type, data):
\* {0} when no field was found
get_value_result(type, data, i) ==
    IF i = 0 THEN [type |-> ZeroType, data |-> 0]
    ELSE [type |-> type.fields[i].type, data |-> data + type.fields[i].offset]

json_find_field_index(type, name) ==
    IF type.type # "STRUCT" THEN 0 ELSE FieldNamed(type.fields, name, 1)

\* characters of the primitive codes by kind
SignedCodes == {"c", "s", "i", "l", "q"}
UnsignedCodes == {"C", "S", "I", "L", "Q"}

json_primitive_is_unsigned(encoding) == encoding \in UnsignedCodes

\* *(T *)data converted to a 64-bit value, T the integer type of the code
ReadInteger(code, mem, off) ==
    IF code \in UnsignedCodes
    THEN ZeroExtend(Load(mem, off, primitive_type_size(code)), 8)
    ELSE SignExtend(Load(mem, off, primitive_type_size(code)), 8)

json_read_signed_value(type, mem, off) ==
    IF type.type # "PRIMITIVE" THEN [rc |-> 1, val |-> <<>>]
    ELSE IF type.primitive \in SignedCodes
    THEN [rc |-> 0, val |-> ReadInteger(type.primitive, mem, off)]
    ELSE IF type.primitive = "B"
    THEN [rc |-> 0, val |-> FromNat(IF Load(mem, off, 1) # <<0>> THEN 1 ELSE 0, 8)]
    ELSE [rc |-> 1, val |-> <<>>]

json_read_unsigned_value(type, mem, off) ==
    IF type.type # "PRIMITIVE" THEN [rc |-> 1, val |-> <<>>]
    ELSE IF type.primitive \in UnsignedCodes
    THEN [rc |-> 0, val |-> ReadInteger(type.primitive, mem, off)]
    ELSE [rc |-> 1, val |-> <<>>]

\* the member of union_type that the discriminator, a field of type tag_type
\* stored at offset tag_off of mem, selects: its index, 0 for failure
\* the tag_value literal of a member converted by strtoull / strtoll with base
\* 0; match fails when there is no literal or it is not a complete number
TagLiteralMatches(field, tag, signed) ==
    /\ json_union_field_tag_value(field) # <<>>
    /\ LET r == IF signed THEN strtoll(Chars(json_union_field_tag_value(field)[1]), 0)
                ELSE strtoull(Chars(json_union_field_tag_value(field)[1]), 0)
       IN /\ ~r.erange
          /\ r.end # 1
          /\ r.end = Len(json_union_field_tag_value(field)[1]) + 1
          /\ r.val = tag

\* select_by_number that goes on to the last member that matches
select_by_number_last(fields, tag, signed, i) ==
    IF \A k \in i..Len(fields) : ~TagLiteralMatches(fields[k], tag, signed) THEN 0
    ELSE CHOOSE k \in i..Len(fields) :
            /\ TagLiteralMatches(fields[k], tag, signed)
            /\ \A x \in (k + 1)..Len(fields) : ~TagLiteralMatches(fields[x], tag, signed)

RECURSIVE select_by_number(_, _, _, _)
select_by_number(fields, tag, signed, i) ==
    IF i > Len(fields) THEN 0
    ELSE IF TagLiteralMatches(fields[i], tag, signed) THEN i
    ELSE select_by_number(fields, tag, signed, i + 1)

\* the C string a text discriminator points to, as a TLA+ string is not
\* available: tag texts are compared as byte sequences
select_by_string(fields, tagbytes, i) ==
    LET hits == {k \in i..Len(fields) :
                    LET m == IF json_union_field_tag_value(fields[k]) # <<>>
                             THEN json_union_field_tag_value(fields[k])
                             ELSE json_field_json_key(fields[k])
                    IN m # <<>> /\ Chars(m[1]) = tagbytes}
    IN IF hits = {} THEN 0 ELSE CHOOSE k \in hits : \A j \in hits : k <= j

json_select_union_field(union_type, tag_type, mem, tag_off) ==
    IF union_type.type # "UNION" THEN 0
    ELSE IF tag_type.type # "PRIMITIVE" THEN 0
    ELSE IF tag_type.primitive = "*"
    THEN IF IsNullAt(mem, tag_off) THEN 0
         ELSE select_by_string(union_type.fields,
                               CString(Pointee(mem, tag_off).bytes, 1, <<>>), 1)
    ELSE IF json_primitive_is_unsigned(tag_type.primitive)
    THEN select_by_number(union_type.fields,
                          json_read_unsigned_value(tag_type, mem, tag_off).val, FALSE, 1)
    ELSE IF json_read_signed_value(tag_type, mem, tag_off).rc # 0 THEN 0
    ELSE select_by_number(union_type.fields,
                          json_read_signed_value(tag_type, mem, tag_off).val, TRUE, 1)

----------------------------------------------------------------------------
(* Encoder. The stream is the sequence of the texts written, one entry per *)
(* fprintf of a bracket, separator, key or value, with the nesting depth   *)
(* of the record or array that wrote it; the output is their               *)
(* concatenation.                                                          *)

Emit(out, text, depth, role) ==
    Append(out, [text |-> text, depth |-> depth, role |-> role])

Emitted(out) == [rc |-> 0, out |-> out]

\* return 1: what was written before stays in the stream
EncodeFailed(out) == [rc |-> 1, out |-> out]

RECURSIVE StreamText(_, _)
StreamText(out, i) == IF i > Len(out) THEN <<>> ELSE out[i].text \o StreamText(out, i + 1)

HexDigits == Chars("0123456789abcdef")

\* what the sized-string loop writes for the byte c
json_escape_char(c) ==
    IF c = 34 \/ c = 92 THEN <<92, c>>
    ELSE IF c = 10 THEN <<92, 110>>
    ELSE IF c = 13 THEN <<92, 114>>
    ELSE IF c = 9 THEN <<92, 116>>
    ELSE IF c < 32 \/ c > 126
    THEN <<92, 117, 48, 48, HexDigits[(c \div 16) + 1], HexDigits[(c % 16) + 1]>>
    ELSE <<c>>

\* for (k = 0; k < len; k++) over the bytes ptr[k]
RECURSIVE json_escape(_, _, _, _)
json_escape(bytes, k, len, acc) ==
    IF ~ULess(FromNat(k, 8), len) THEN acc
    ELSE json_escape(bytes, k + 1, len, acc \o json_escape_char(bytes[k + 1]))

\* size_t len = *(T *)len_val.data
encode_length(len_type, mem, off) ==
    IF len_type.primitive \in SignedCodes \cup UnsignedCodes
    THEN [ok |-> TRUE, len |-> ReadInteger(len_type.primitive, mem, off)]
    ELSE [ok |-> FALSE, len |-> <<>>]

value_to_json_primitive(t, mem, off, depth, out) ==
    CASE t.primitive \in {"c", "C"} ->
            Emitted(Emit(out, FormatSigned(SignExtend(Load(mem, off, 1), 4)), depth, "value"))
      [] t.primitive \in {"s", "S"} ->
            Emitted(Emit(out, FormatSigned(SignExtend(Load(mem, off, 2), 4)), depth, "value"))
      [] t.primitive \in {"i", "I"} ->
            Emitted(Emit(out, FormatSigned(Load(mem, off, 4)), depth, "value"))
      [] t.primitive \in {"l", "L", "q", "Q"} ->
            Emitted(Emit(out, FormatSigned(Load(mem, off, 8)), depth, "value"))
      [] t.primitive = "*" ->
            Emitted(Emit(out, <<34>> \o CString(Pointee(mem, off).bytes, 1, <<>>) \o <<34>>,
                         depth, "value"))
      [] t.primitive = "B" ->
            Emitted(Emit(out, Chars(IF Load(mem, off, 1) # <<0>> THEN "true" ELSE "false"),
                         depth, "value"))
      [] OTHER -> Emitted(out)

\* the field of record t that holds the length of `field`: its index, 0 when
\* the field names none or the record has no such field
sized_length_index(t, field) ==
    IF target_length_field(field) = <<>> THEN 0
    ELSE get_value(t, target_length_field(field)[1])

\* the conditions under which the record loop writes `field` by its length
is_sized(t, field) ==
    /\ sized_length_index(t, field) # 0
    /\ t.fields[sized_length_index(t, field)].type.type = "PRIMITIVE"
    /\ t.fields[sized_length_index(t, field)].type.primitive \in SignedCodes \cup UnsignedCodes
    /\ \/ field.type.type = "PRIMITIVE" /\ field.type.primitive = "*"
       \/ field.type.type = "POINTER"

RECURSIVE value_to_json(_, _, _, _, _)
RECURSIVE value_to_json_fields(_, _, _, _, _, _, _)
RECURSIVE value_to_json_elements(_, _, _, _, _, _, _)

\* after element k: stop on its failure, else the separator and the rest
value_to_json_element(elem, mem, off, k, count, d, e) ==
    IF e.rc # 0 THEN EncodeFailed(e.out)
    ELSE value_to_json_elements(elem, mem, off, k + 1, count, d,
            IF FromNat(k + 1, 8) # count THEN Emit(e.out, Chars(", "), d, "sep")
            ELSE e.out)

\* the loop over the elements from k of the `count` elements stored from off,
\* and the closing bracket
value_to_json_elements(elem, mem, off, k, count, d, out) ==
    IF ~ULess(FromNat(k, 8), count) THEN Emitted(Emit(out, Chars("]"), d, "close"))
    ELSE value_to_json_element(elem, mem, off, k, count, d,
            value_to_json(elem, mem, off + k * type_size(elem), d, out))

\* a sized_by field whose length field holds len
value_to_json_sized(field, mem, off, d, len, out) ==
    IF IsNullAt(mem, off) THEN Emitted(Emit(out, Chars("null"), d, "value"))
    ELSE IF field.type.type = "PRIMITIVE"
    THEN Emitted(Emit(out, <<34>> \o json_escape(Pointee(mem, off).bytes, 0, len, <<>>)
                           \o <<34>>, d, "value"))
    ELSE value_to_json_elements(field.type.sub[1], Pointee(mem, off), 0, 0, len, d + 1,
                                Emit(out, Chars("["), d + 1, "open"))

\* a tagged_by union field: the member the discriminator selects
value_to_json_active(field, mem, off, d, active, out) ==
    IF active = 0 THEN EncodeFailed(out)
    ELSE value_to_json(field.type.fields[active].type, mem,
                       off + field.offset + field.type.fields[active].offset, d, out)

value_to_json_tagged_first(t, field, mem, off, d, tag, out) ==
    IF tag = 0 THEN EncodeFailed(out)
    ELSE value_to_json_active(field, mem, off, d, 1, out)

value_to_json_tagged(t, field, mem, off, d, tag, out) ==
    IF tag = 0 THEN EncodeFailed(out)
    ELSE value_to_json_active(field, mem, off, d,
            json_select_union_field(field.type, t.fields[tag].type, mem,
                                    off + t.fields[tag].offset), out)

\* the value of one member of record t stored at off
value_to_json_field(t, field, mem, off, d, out) ==
    IF is_sized(t, field)
    THEN value_to_json_sized(field, mem, off + field.offset, d,
            encode_length(t.fields[sized_length_index(t, field)].type, mem,
                          off + t.fields[sized_length_index(t, field)].offset).len, out)
    ELSE IF field.type.type = "UNION" /\ json_field_tagged_by_name(field) # <<>>
    THEN value_to_json_tagged(t, field, mem, off, d,
                              get_value(t, json_field_tagged_by_name(field)[1]), out)
    ELSE value_to_json(field.type, mem, off + field.offset, d, out)

value_to_json_member(t, mem, off, d, i, r) ==
    IF r.rc # 0 THEN EncodeFailed(r.out)
    ELSE value_to_json_fields(t, mem, off, d, i + 1, FALSE, r.out)

\* value_to_json_fields that takes the first field of the record, not the
\* first member written, to be the one without a separator
value_to_json_fields_by_index(t, mem, off, d, i, first, out) ==
    IF i > Len(t.fields) THEN Emitted(Emit(out, Chars("}"), d, "close"))
    ELSE IF field_has_modifier(t.fields[i], "no_serialise")
    THEN value_to_json_fields(t, mem, off, d, i + 1, first, out)
    ELSE IF t.fields[i].name = <<>>
    THEN value_to_json_fields(t, mem, off, d, i + 1, first, out)
    ELSE value_to_json_member(t, mem, off, d, i,
            value_to_json_field(t, t.fields[i], mem, off, d,
                Emit(IF i = 1 THEN out ELSE Emit(out, Chars(", "), d, "sep"),
                     <<34>> \o Chars(json_field_json_key(t.fields[i])[1]) \o <<34, 58, 32>>,
                     d, "key")))

\* the member loop of a record from field i, and the closing brace
value_to_json_fields(t, mem, off, d, i, first, out) ==
    IF i > Len(t.fields) THEN Emitted(Emit(out, Chars("}"), d, "close"))
    ELSE IF field_has_modifier(t.fields[i], "no_serialise")
    THEN value_to_json_fields(t, mem, off, d, i + 1, first, out)
    ELSE IF t.fields[i].name = <<>>
    THEN value_to_json_fields(t, mem, off, d, i + 1, first, out)
    ELSE value_to_json_member(t, mem, off, d, i,
            value_to_json_field(t, t.fields[i], mem, off, d,
                Emit(IF first THEN out ELSE Emit(out, Chars(", "), d, "sep"),
                     <<34>> \o Chars(json_field_json_key(t.fields[i])[1]) \o <<34, 58, 32>>,
                     d, "key")))

\* value_to_json(buf, val) for val = (t, the object at offset off of mem),
\* called from a container of nesting depth d; out is what buf holds
value_to_json(t, mem, off, d, out) ==
    CASE t.type = "PRIMITIVE" -> value_to_json_primitive(t, mem, off, d, out)
      [] t.type = "STRUCT" ->
            value_to_json_fields(t, mem, off, d + 1, 1, TRUE,
                                 Emit(out, Chars("{"), d + 1, "open"))
      [] t.type = "ARRAY" ->
            value_to_json_elements(t.sub[1], mem, off, 0, FromNat(t.length, 8), d + 1,
                                   Emit(out, Chars("["), d + 1, "open"))
      [] t.type = "POINTER" ->
            IF IsNullAt(mem, off) THEN Emitted(Emit(out, Chars("null"), d, "value"))
            ELSE value_to_json(t.sub[1], Pointee(mem, off), 0, d, out)
      [] OTHER -> EncodeFailed(out)

----------------------------------------------------------------------------
(* Decoder: reading tokens *)

\* tokens[index] for the 0-based index of the source
Tok(tokens, index) == tokens[index + 1]

\* the bytes json + tok->start .. json + tok->end
TokenText(json, tok) == SubSeq(json, tok.start + 1, tok.end)

json_token_eq(json, tok, str) == TokenText(json, tok) = Chars(str)

\* the outcome of strtoll / strtoull on the copy of the token
json_parsed_number(text, r) ==
    IF r.erange \/ r.end = 1 \/ r.end # Len(text) + 1 THEN [rc |-> 1, val |-> FromNat(0, 8)]
    ELSE [rc |-> 0, val |-> r.val]

IsLiteralWord(json, tok) ==
    \/ json_token_eq(json, tok, "true")
    \/ json_token_eq(json, tok, "false")
    \/ json_token_eq(json, tok, "null")

json_parse_signed_token(json, tok) ==
    IF tok.type # "PRIMITIVE" THEN [rc |-> 1, val |-> FromNat(0, 8)]
    ELSE IF IsLiteralWord(json, tok) THEN [rc |-> 1, val |-> FromNat(0, 8)]
    ELSE json_parsed_number(TokenText(json, tok), strtoll(TokenText(json, tok), 10))

json_parse_unsigned_token(json, tok) ==
    IF tok.type # "PRIMITIVE" THEN [rc |-> 1, val |-> FromNat(0, 8)]
    ELSE IF IsLiteralWord(json, tok) THEN [rc |-> 1, val |-> FromNat(0, 8)]
    ELSE IF Js(json, tok.start) = 45 THEN [rc |-> 1, val |-> FromNat(0, 8)]
    ELSE json_parsed_number(TokenText(json, tok), strtoull(TokenText(json, tok), 10))

json_parse_bool_token(json, tok) ==
    IF tok.type # "PRIMITIVE" THEN [rc |-> 1, val |-> FALSE]
    ELSE IF json_token_eq(json, tok, "true") THEN [rc |-> 0, val |-> TRUE]
    ELSE IF json_token_eq(json, tok, "false") THEN [rc |-> 0, val |-> FALSE]
    ELSE IF json_token_eq(json, tok, "0") THEN [rc |-> 0, val |-> FALSE]
    ELSE IF json_token_eq(json, tok, "1") THEN [rc |-> 0, val |-> TRUE]
    ELSE [rc |-> 1, val |-> FALSE]

json_hex_value(c) == DigitIn(c, 16)

\* the UTF-8 bytes of code point cp, <<>> when it has no encoding
json_utf8_encode(cp) ==
    IF cp <= 127 THEN <<cp>>
    ELSE IF cp <= 2047 THEN <<192 + (cp \div 64), 128 + (cp % 64)>>
    ELSE IF cp <= 65535
    THEN IF cp >= 55296 /\ cp <= 57343 THEN <<>>
         ELSE <<224 + (cp \div 4096), 128 + ((cp \div 64) % 64), 128 + (cp % 64)>>
    ELSE IF cp <= 1114111
    THEN <<240 + (cp \div 262144), 128 + ((cp \div 4096) % 64),
           128 + ((cp \div 64) % 64), 128 + (cp % 64)>>
    ELSE <<>>

\* the loop of json_decode_string over src from si (0-based), dst so far
RECURSIVE json_decode_chars(_, _, _)

json_decode_unicode(src, si, dst, h1, h2, h3, h4) ==
    IF h1 < 0 \/ h2 < 0 \/ h3 < 0 \/ h4 < 0 THEN [rc |-> 1, text |-> <<>>]
    ELSE IF json_utf8_encode(h1 * 4096 + h2 * 256 + h3 * 16 + h4) = <<>>
    THEN [rc |-> 1, text |-> <<>>]
    ELSE json_decode_chars(src, si + 5,
                           dst \o json_utf8_encode(h1 * 4096 + h2 * 256 + h3 * 16 + h4))

\* the escape whose backslash is at si (0-based)
json_decode_escape(src, si, dst) ==
    IF si + 1 >= Len(src) THEN [rc |-> 1, text |-> <<>>]
    ELSE CASE src[si + 2] \in {34, 92, 47} ->
                json_decode_chars(src, si + 2, Append(dst, src[si + 2]))
           [] src[si + 2] = 98 -> json_decode_chars(src, si + 2, Append(dst, 8))
           [] src[si + 2] = 102 -> json_decode_chars(src, si + 2, Append(dst, 12))
           [] src[si + 2] = 110 -> json_decode_chars(src, si + 2, Append(dst, 10))
           [] src[si + 2] = 114 -> json_decode_chars(src, si + 2, Append(dst, 13))
           [] src[si + 2] = 116 -> json_decode_chars(src, si + 2, Append(dst, 9))
           [] src[si + 2] = 117 ->
                IF si + 5 >= Len(src) THEN [rc |-> 1, text |-> <<>>]
                ELSE json_decode_unicode(src, si + 1, dst,
                        json_hex_value(src[si + 3]), json_hex_value(src[si + 4]),
                        json_hex_value(src[si + 5]), json_hex_value(src[si + 6]))
           [] OTHER -> [rc |-> 1, text |-> <<>>]

\* the bytes from si up to the next backslash (at stop) are copied unchanged
json_decode_run(src, si, dst, stop) ==
    IF stop >= Len(src) THEN [rc |-> 0, text |-> dst \o SubSeq(src, si + 1, Len(src))]
    ELSE json_decode_escape(src, stop, dst \o SubSeq(src, si + 1, stop))

json_decode_chars(src, si, dst) ==
    json_decode_run(src, si, dst, NextStop(src, Len(src), si, {92}))

\* json_decode_string: the decoded bytes (out_len is their count)
json_decode_string(json, tok) ==
    IF tok.type # "STRING" THEN [rc |-> 1, text |-> <<>>]
    ELSE json_decode_chars(TokenText(json, tok), 0, <<>>)

\* json_skip_token: the index after the token at index and all it contains,
\* -1 when there is no such token; token_count is Len(tokens)
RECURSIVE json_skip_token(_, _)
RECURSIVE json_skip_tokens(_, _, _)
json_skip_tokens(tokens, i, n) ==
    IF i < 0 THEN 0 - 1
    ELSE IF n = 0 THEN i
    ELSE json_skip_tokens(tokens, json_skip_token(tokens, i), n - 1)

json_skip_token(tokens, index) ==
    IF index < 0 \/ index >= Len(tokens) THEN 0 - 1
    ELSE CASE Tok(tokens, index).type \in {"PRIMITIVE", "STRING"} -> index + 1
           [] Tok(tokens, index).type = "ARRAY" ->
                json_skip_tokens(tokens, index + 1, Tok(tokens, index).size)
           [] Tok(tokens, index).type = "OBJECT" ->
                json_skip_tokens(tokens, index + 1, 2 * Tok(tokens, index).size)
           [] OTHER -> 0 - 1

\* the first field of a record whose JSON key is the text of key_tok: its
\* index, 0 when none
RECURSIVE FieldKeyed(_, _, _, _)
FieldKeyed(json, fields, key_tok, i) ==
    IF i > Len(fields) THEN 0
    ELSE IF json_field_json_key(fields[i]) # <<>>
            /\ json_token_eq(json, key_tok, json_field_json_key(fields[i])[1])
    THEN i
    ELSE FieldKeyed(json, fields, key_tok, i + 1)

json_find_field_by_key(json, type, key_tok) ==
    IF type.type # "STRUCT" THEN 0 ELSE FieldKeyed(json, type.fields, key_tok, 1)

----------------------------------------------------------------------------
(* Decoder: lengths *)

json_read_size_value(type, mem, off) ==
    IF type.type # "PRIMITIVE" THEN [rc |-> 1, size |-> FromNat(0, 8)]
    ELSE IF type.primitive \in SignedCodes
    THEN IF IsNegative(Load(mem, off, primitive_type_size(type.primitive)))
         THEN [rc |-> 1, size |-> FromNat(0, 8)]
         ELSE [rc |-> 0, size |-> ReadInteger(type.primitive, mem, off)]
    ELSE IF type.primitive \in UnsignedCodes
    THEN [rc |-> 0, size |-> ReadInteger(type.primitive, mem, off)]
    ELSE [rc |-> 1, size |-> FromNat(0, 8)]

\* the greatest value of the integer type of a code: SCHAR_MAX .. ULLONG_MAX
IntegerMax(code) ==
    IF code \in UnsignedCodes THEN UnsignedMax(primitive_type_size(code))
    ELSE SignedMax(primitive_type_size(code))

\* the least value of a signed integer type: SCHAR_MIN .. LLONG_MIN
IntegerMin(code) == SignedMin(primitive_type_size(code))

\* json_write_size_value without the range check: the count is stored
\* truncated to the width of the field
json_write_size_value_truncating(type, mem, off, size) ==
    IF type.type # "PRIMITIVE" THEN [rc |-> 1, mem |-> mem]
    ELSE IF type.primitive \notin SignedCodes \cup UnsignedCodes THEN [rc |-> 1, mem |-> mem]
    ELSE [rc |-> 0,
          mem |-> Store(mem, off, Truncate(size, primitive_type_size(type.primitive)))]

json_write_size_value(type, mem, off, size) ==
    IF type.type # "PRIMITIVE" THEN [rc |-> 1, mem |-> mem]
    ELSE IF type.primitive \notin SignedCodes \cup UnsignedCodes THEN [rc |-> 1, mem |-> mem]
    ELSE IF ULess(IntegerMax(type.primitive), size) THEN [rc |-> 1, mem |-> mem]
    ELSE [rc |-> 0,
          mem |-> Store(mem, off, Truncate(size, primitive_type_size(type.primitive)))]

\* the range checks after json_parse_signed_token / json_parse_unsigned_token
json_size_in_range(code, r) ==
    IF r.rc # 0 THEN [rc |-> 1, size |-> FromNat(0, 8)]
    ELSE IF code \in SignedCodes /\ (IsNegative(r.val) \/ SLess(IntegerMax(code), r.val))
    THEN [rc |-> 1, size |-> FromNat(0, 8)]
    ELSE IF code \in UnsignedCodes /\ ULess(IntegerMax(code), r.val)
    THEN [rc |-> 1, size |-> FromNat(0, 8)]
    ELSE [rc |-> 0, size |-> r.val]

json_parse_size_token(json, tok, type) ==
    IF type.type # "PRIMITIVE" THEN [rc |-> 1, size |-> FromNat(0, 8)]
    ELSE IF type.primitive \in SignedCodes
    THEN json_size_in_range(type.primitive, json_parse_signed_token(json, tok))
    ELSE IF type.primitive \in UnsignedCodes
    THEN json_size_in_range(type.primitive, json_parse_unsigned_token(json, tok))
    ELSE [rc |-> 1, size |-> FromNat(0, 8)]

----------------------------------------------------------------------------
(* Decoder. A step returns rc and the memory as the call left it, partial  *)
(* writes included; json_parse_struct also returns its bookkeeping: seen   *)
(* (field_seen), derived (length_from_array) and pending                   *)
(* (pending_union_index), one entry per field.                             *)

Decoded(rc, mem) ==
    [rc |-> rc, mem |-> mem, seen |-> <<>>, derived |-> <<>>, pending |-> <<>>]

\* return 1 from inside json_parse_struct
Fail(st) == [st EXCEPT !.rc = 1]

\* the outcome r of decoding into the record's memory
WithMem(st, r) == [st EXCEPT !.rc = r.rc, !.mem = r.mem]

IsCharPointer(type) == type.type = "PRIMITIVE" /\ type.primitive = "*"

IsNullToken(json, tok) == tok.type = "PRIMITIVE" /\ json_token_eq(json, tok, "null")

\* json_store_integer that stores whatever was parsed, narrowed to the field
json_store_integer_unchecked(code, mem, off, r) ==
    IF r.rc # 0 THEN Decoded(1, mem)
    ELSE Decoded(0, Store(mem, off, Truncate(r.val, primitive_type_size(code))))

\* the range check of json_parse_primitive on a parsed number, and the store
json_store_integer(code, mem, off, r) ==
    IF r.rc # 0 THEN Decoded(1, mem)
    ELSE IF code \in SignedCodes
            /\ (SLess(r.val, IntegerMin(code)) \/ SLess(IntegerMax(code), r.val))
    THEN Decoded(1, mem)
    ELSE IF code \in UnsignedCodes /\ ULess(IntegerMax(code), r.val) THEN Decoded(1, mem)
    ELSE Decoded(0, Store(mem, off, Truncate(r.val, primitive_type_size(code))))

json_store_bool(mem, off, r) ==
    IF r.rc # 0 THEN Decoded(1, mem)
    ELSE Decoded(0, Store(mem, off, <<IF r.val THEN 1 ELSE 0>>))

json_store_text(mem, off, r) ==
    IF r.rc # 0 THEN Decoded(1, mem)
    ELSE Decoded(0, StorePointer(mem, off, TextBlock(r.text)))

json_parse_primitive(json, tok, type, mem, off) ==
    CASE type.primitive \in SignedCodes ->
            json_store_integer(type.primitive, mem, off, json_parse_signed_token(json, tok))
      [] type.primitive \in UnsignedCodes ->
            json_store_integer(type.primitive, mem, off, json_parse_unsigned_token(json, tok))
      [] type.primitive = "B" -> json_store_bool(mem, off, json_parse_bool_token(json, tok))
      [] type.primitive = "*" ->
            IF IsNullToken(json, tok) THEN Decoded(0, StoreNull(mem, off))
            ELSE json_store_text(mem, off, json_decode_string(json, tok))
      [] OTHER -> Decoded(1, mem)

RECURSIVE json_parse_value(_, _, _, _, _, _)
RECURSIVE json_parse_elements(_, _, _, _, _, _, _, _)
RECURSIVE json_parse_members(_, _, _, _, _, _, _)

\* the element loop of json_parse_array and json_parse_sized_field: element i
\* of count, stored from off, is read from the token at idx; r is the outcome
\* so far
json_parse_elements(json, tokens, elem, off, i, count, idx, r) ==
    IF r.rc # 0 THEN Decoded(1, r.mem)
    ELSE IF idx < 0 THEN Decoded(1, r.mem)
    ELSE IF i >= count THEN r
    ELSE json_parse_elements(json, tokens, elem, off, i + 1, count,
            json_skip_token(tokens, idx),
            json_parse_value(json, tokens, idx, elem, r.mem, off + i * type_size(elem)))

json_parse_array_unchecked(json, tokens, index, type, mem, off) ==
    IF index < 0 \/ index >= Len(tokens) THEN Decoded(1, mem)
    ELSE IF Tok(tokens, index).type # "ARRAY" THEN Decoded(1, mem)
    ELSE json_parse_elements(json, tokens, type.sub[1], off, 0, type.length, index + 1,
                             Decoded(0, mem))

json_parse_array(json, tokens, index, type, mem, off) ==
    IF index < 0 \/ index >= Len(tokens) THEN Decoded(1, mem)
    ELSE IF Tok(tokens, index).type # "ARRAY" THEN Decoded(1, mem)
    ELSE IF Tok(tokens, index).size # type.length THEN Decoded(1, mem)
    ELSE json_parse_elements(json, tokens, type.sub[1], off, 0, type.length, index + 1,
                             Decoded(0, mem))

\* *(void **)out->data = mem once the pointee has been decoded into r.mem
json_store_pointee(mem, off, r) ==
    IF r.rc # 0 THEN Decoded(1, mem) ELSE Decoded(0, StorePointer(mem, off, r.mem))

json_parse_pointer(json, tokens, index, type, mem, off) ==
    IF index < 0 \/ index >= Len(tokens) THEN Decoded(1, mem)
    ELSE IF IsNullToken(json, Tok(tokens, index)) THEN Decoded(0, StoreNull(mem, off))
    ELSE IF type_size(type.sub[1]) = 0 THEN Decoded(1, mem)
    ELSE json_store_pointee(mem, off,
            json_parse_value(json, tokens, index, type.sub[1],
                             ZeroBlock(type_size(type.sub[1])), 0))

\* the three-way treatment of the companion length field (index li) that the
\* null, array and string cases share: compare with a length already seen,
\* or write the count, or compare with the memory of a no_deserialise field
json_sized_written(st, li, w) ==
    IF w.rc # 0 THEN Fail(st)
    ELSE [st EXCEPT !.mem = w.mem, !.seen[li] = TRUE, !.derived[li] = TRUE]

json_sized_current(st, li, count, c) ==
    IF c.rc # 0 THEN Fail(st)
    ELSE IF c.size # count THEN Fail(st)
    ELSE [st EXCEPT !.seen[li] = TRUE]

\* json_sized_length that accepts any count once the length has been seen
json_sized_length_uncompared(len_field, off, li, have_length, existing_length, count, st) ==
    IF have_length THEN st
    ELSE IF ~field_has_modifier(len_field, "no_deserialise")
    THEN json_sized_written(st, li,
            json_write_size_value(len_field.type, st.mem, off + len_field.offset, count))
    ELSE json_sized_current(st, li, count,
            json_read_size_value(len_field.type, st.mem, off + len_field.offset))

json_sized_length(len_field, off, li, have_length, existing_length, count, st) ==
    IF have_length THEN (IF existing_length # count THEN Fail(st) ELSE st)
    ELSE IF ~field_has_modifier(len_field, "no_deserialise")
    THEN json_sized_written(st, li,
            json_write_size_value(len_field.type, st.mem, off + len_field.offset, count))
    ELSE json_sized_current(st, li, count,
            json_read_size_value(len_field.type, st.mem, off + len_field.offset))

\* the array case after the length: allocate, decode the elements, store
json_sized_elements(off, field, st, r) ==
    IF r.rc # 0 THEN Fail(st)
    ELSE [st EXCEPT !.mem = StorePointer(st.mem, off + field.offset, r.mem)]

json_sized_array(json, tokens, value_index, off, field, st) ==
    IF st.rc # 0 THEN st
    ELSE IF Tok(tokens, value_index).size = 0
    THEN [st EXCEPT !.mem = StoreNull(st.mem, off + field.offset)]
    ELSE IF type_size(field.type.sub[1]) = 0 THEN Fail(st)
    ELSE json_sized_elements(off, field, st,
            json_parse_elements(json, tokens, field.type.sub[1], 0, 0,
                Tok(tokens, value_index).size, value_index + 1,
                Decoded(0, ZeroBlock(Tok(tokens, value_index).size
                                     * type_size(field.type.sub[1])))))

\* the string case after the length
json_sized_text(off, field, text, st) ==
    IF st.rc # 0 THEN st
    ELSE [st EXCEPT !.mem = StorePointer(st.mem, off + field.offset, TextBlock(text))]

json_sized_string(off, field, len_field, li, have_length, existing_length, st, d) ==
    IF d.rc # 0 THEN Fail(st)
    ELSE json_sized_text(off, field, d.text,
            json_sized_length(len_field, off, li, have_length, existing_length,
                              FromNat(Len(d.text), 8), st))

\* json_parse_sized_field once the companion (index li) is known and, when it
\* has been seen, read
json_sized_value(json, tokens, value_index, off, field, len_field, li,
                 have_length, existing_length, st) ==
    IF IsNullToken(json, Tok(tokens, value_index))
    THEN json_sized_length(len_field, off, li, have_length, existing_length, FromNat(0, 8),
                           [st EXCEPT !.mem = StoreNull(st.mem, off + field.offset)])
    ELSE IF field.type.type = "POINTER"
    THEN IF Tok(tokens, value_index).type # "ARRAY" THEN Fail(st)
         ELSE json_sized_array(json, tokens, value_index, off, field,
                json_sized_length(len_field, off, li, have_length, existing_length,
                                  FromNat(Tok(tokens, value_index).size, 8), st))
    ELSE IF IsCharPointer(field.type)
    THEN IF Tok(tokens, value_index).type # "STRING" THEN Fail(st)
         ELSE json_sized_string(off, field, len_field, li, have_length, existing_length, st,
                                json_decode_string(json, Tok(tokens, value_index)))
    ELSE Fail(st)

json_sized_existing(json, tokens, value_index, off, field, len_field, li, st, e) ==
    IF e.rc # 0 THEN Fail(st)
    ELSE json_sized_value(json, tokens, value_index, off, field, len_field, li,
                          TRUE, e.size, st)

json_sized_companion(json, tokens, value_index, t, off, field, li, st) ==
    IF li = 0 THEN Fail(st)
    ELSE IF t.fields[li].type.type # "PRIMITIVE" THEN Fail(st)
    ELSE IF st.seen[li]
    THEN json_sized_existing(json, tokens, value_index, off, field, t.fields[li], li, st,
            json_read_size_value(t.fields[li].type, st.mem, off + t.fields[li].offset))
    ELSE json_sized_value(json, tokens, value_index, off, field, t.fields[li], li,
                          FALSE, FromNat(0, 8), st)

json_parse_sized_field(json, tokens, value_index, t, off, field, st) ==
    IF json_field_length_name(field) = <<>> THEN Fail(st)
    ELSE json_sized_companion(json, tokens, value_index, t, off, field,
                              json_find_field_index(t, json_field_length_name(field)[1]), st)

\* the member of the union selected by the discriminator, decoded in place
json_parse_active(json, tokens, value_index, off, union_field, active, st) ==
    IF active = 0 THEN Fail(st)
    ELSE WithMem(st,
            json_parse_value(json, tokens, value_index, union_field.type.fields[active].type,
                st.mem, off + union_field.offset + union_field.type.fields[active].offset))

json_parse_tagged_union_field(json, tokens, value_index, off, union_field, tag_field, st) ==
    IF union_field.type.type # "UNION" THEN Fail(st)
    ELSE json_parse_active(json, tokens, value_index, off, union_field,
            json_select_union_field(union_field.type, tag_field.type, st.mem,
                                    off + tag_field.offset), st)

\* json_parse_union_member that never waits for the discriminator
json_parse_union_member_eager(json, tokens, value_index, t, off, fi, tag_index, st) ==
    IF tag_index = 0 THEN Fail(st)
    ELSE json_parse_tagged_union_field(json, tokens, value_index, off, t.fields[fi],
                                       t.fields[tag_index], st)

\* a union member of the object: decode it if the discriminator (index
\* tag_index) is available, else remember its value token
json_parse_union_member(json, tokens, value_index, t, off, fi, tag_index, st) ==
    IF tag_index = 0 THEN Fail(st)
    ELSE IF ~(st.seen[tag_index] \/ field_has_modifier(t.fields[tag_index], "no_deserialise"))
    THEN [st EXCEPT !.pending[fi] = value_index]
    ELSE json_parse_tagged_union_field(json, tokens, value_index, off, t.fields[fi],
                                       t.fields[tag_index], st)

\* a later occurrence of a key whose length was derived: the literal must
\* equal the stored length
json_repeated_length(st, parsed, existing) ==
    IF parsed.rc # 0 \/ existing.rc # 0 \/ parsed.size # existing.size THEN Fail(st) ELSE st

\* field_seen[field_index] = true at the end of the loop body
json_member_done(fi, st) == IF st.rc # 0 THEN st ELSE [st EXCEPT !.seen[fi] = TRUE]

\* the first decode of field fi from the token at value_index
json_parse_field(json, tokens, value_index, t, off, fi, st) ==
    IF json_field_length_name(t.fields[fi]) # <<>>
       /\ (t.fields[fi].type.type = "POINTER" \/ IsCharPointer(t.fields[fi].type))
    THEN json_parse_sized_field(json, tokens, value_index, t, off, t.fields[fi], st)
    ELSE IF t.fields[fi].type.type = "UNION"
    THEN IF json_field_tagged_by_name(t.fields[fi]) = <<>> THEN Fail(st)
         ELSE json_parse_union_member(json, tokens, value_index, t, off, fi,
                json_find_field_index(t, json_field_tagged_by_name(t.fields[fi])[1]), st)
    ELSE WithMem(st, json_parse_value(json, tokens, value_index, t.fields[fi].type, st.mem,
                                      off + t.fields[fi].offset))

\* json_parse_member that decodes a no_deserialise field like any other
json_parse_member_unguarded(json, tokens, value_index, t, off, fi, st) ==
    IF fi = 0 THEN st
    ELSE IF st.seen[fi]
    THEN IF st.derived[fi]
         THEN json_repeated_length(st,
                json_parse_size_token(json, Tok(tokens, value_index), t.fields[fi].type),
                json_read_size_value(t.fields[fi].type, st.mem, off + t.fields[fi].offset))
         ELSE st
    ELSE json_member_done(fi, json_parse_field(json, tokens, value_index, t, off, fi, st))

\* json_parse_member that decodes every occurrence of a key into the field
json_parse_member_overwriting(json, tokens, value_index, t, off, fi, st) ==
    IF fi = 0 THEN st
    ELSE IF field_has_modifier(t.fields[fi], "no_deserialise")
    THEN [st EXCEPT !.seen[fi] = TRUE]
    ELSE IF st.seen[fi] /\ st.derived[fi]
    THEN json_repeated_length(st,
            json_parse_size_token(json, Tok(tokens, value_index), t.fields[fi].type),
            json_read_size_value(t.fields[fi].type, st.mem, off + t.fields[fi].offset))
    ELSE json_member_done(fi, json_parse_field(json, tokens, value_index, t, off, fi, st))

\* the body of the member loop for the field fi that the key matched (0: none)
json_parse_member(json, tokens, value_index, t, off, fi, st) ==
    IF fi = 0 THEN st
    ELSE IF field_has_modifier(t.fields[fi], "no_deserialise")
    THEN [st EXCEPT !.seen[fi] = TRUE]
    ELSE IF st.seen[fi]
    THEN IF st.derived[fi]
         THEN json_repeated_length(st,
                json_parse_size_token(json, Tok(tokens, value_index), t.fields[fi].type),
                json_read_size_value(t.fields[fi].type, st.mem, off + t.fields[fi].offset))
         ELSE st
    ELSE json_member_done(fi, json_parse_field(json, tokens, value_index, t, off, fi, st))

\* json_check_required that requires nothing
json_check_required_lenient(t, i, st) == st

\* the loop over the fields from i that are all required to be present
RECURSIVE json_check_required(_, _, _)
json_check_required(t, i, st) ==
    IF i > Len(t.fields) THEN st
    ELSE IF t.fields[i].name = <<>> THEN json_check_required(t, i + 1, st)
    ELSE IF st.seen[i] THEN json_check_required(t, i + 1, st)
    ELSE IF field_has_modifier(t.fields[i], "no_deserialise")
    THEN json_check_required(t, i + 1, st)
    ELSE IF field_has_modifier(t.fields[i], "optional") THEN json_check_required(t, i + 1, st)
    ELSE Fail(st)

\* the loop over the fields from i that resolves the deferred union members
RECURSIVE json_parse_pending(_, _, _, _, _, _)
json_pending_tag_unchecked(json, tokens, t, off, i, tag_index, st) ==
    IF tag_index = 0 THEN Fail(st)
    ELSE json_member_done(i,
            json_parse_tagged_union_field(json, tokens, st.pending[i], off, t.fields[i],
                                          t.fields[tag_index], st))

json_pending_tag(json, tokens, t, off, i, tag_index, st) ==
    IF tag_index = 0 THEN Fail(st)
    ELSE IF ~st.seen[tag_index] /\ ~field_has_modifier(t.fields[tag_index], "no_deserialise")
    THEN Fail(st)
    ELSE json_member_done(i,
            json_parse_tagged_union_field(json, tokens, st.pending[i], off, t.fields[i],
                                          t.fields[tag_index], st))

json_parse_pending(json, tokens, t, off, i, st) ==
    IF st.rc # 0 THEN st
    ELSE IF i > Len(t.fields) THEN json_check_required(t, 1, st)
    ELSE IF st.pending[i] < 0 THEN json_parse_pending(json, tokens, t, off, i + 1, st)
    ELSE IF json_field_tagged_by_name(t.fields[i]) = <<>> THEN Fail(st)
    ELSE json_parse_pending(json, tokens, t, off, i + 1,
            json_pending_tag(json, tokens, t, off, i,
                json_find_field_index(t, json_field_tagged_by_name(t.fields[i])[1]), st))

\* the member loop: n members are left, the next key token is at idx
json_parse_members(json, tokens, t, off, n, idx, st) ==
    IF st.rc # 0 THEN st
    ELSE IF n = 0 THEN json_parse_pending(json, tokens, t, off, 1, st)
    ELSE IF idx + 1 >= Len(tokens) THEN Fail(st)
    ELSE IF json_skip_token(tokens, idx + 1) < 0 THEN Fail(st)
    ELSE json_parse_members(json, tokens, t, off, n - 1, json_skip_token(tokens, idx + 1),
            json_parse_member(json, tokens, idx + 1, t, off,
                              json_find_field_by_key(json, t, Tok(tokens, idx)), st))

json_parse_struct(json, tokens, index, t, mem, off) ==
    IF index < 0 \/ index >= Len(tokens) THEN Decoded(1, mem)
    ELSE IF Tok(tokens, index).type # "OBJECT" THEN Decoded(1, mem)
    ELSE json_parse_members(json, tokens, t, off, Tok(tokens, index).size, index + 1,
            [rc |-> 0, mem |-> mem,
             seen |-> [i \in DOMAIN t.fields |-> FALSE],
             derived |-> [i \in DOMAIN t.fields |-> FALSE],
             pending |-> [i \in DOMAIN t.fields |-> 0 - 1]])

\* json_parse_value(json, tokens, token_count, index, out) for out = (type,
\* the object at offset off of mem)
json_parse_value_union_first(json, tokens, index, type, mem, off) ==
    IF index < 0 \/ index >= Len(tokens) THEN Decoded(1, mem)
    ELSE CASE type.type = "PRIMITIVE" ->
                json_parse_primitive(json, Tok(tokens, index), type, mem, off)
           [] type.type = "STRUCT" -> json_parse_struct(json, tokens, index, type, mem, off)
           [] type.type = "ARRAY" -> json_parse_array(json, tokens, index, type, mem, off)
           [] type.type = "POINTER" -> json_parse_pointer(json, tokens, index, type, mem, off)
           [] OTHER -> json_parse_value(json, tokens, index, type.fields[1].type, mem, off)

json_parse_value(json, tokens, index, type, mem, off) ==
    IF index < 0 \/ index >= Len(tokens) THEN Decoded(1, mem)
    ELSE CASE type.type = "PRIMITIVE" ->
                json_parse_primitive(json, Tok(tokens, index), type, mem, off)
           [] type.type = "STRUCT" -> json_parse_struct(json, tokens, index, type, mem, off)
           [] type.type = "ARRAY" -> json_parse_array(json, tokens, index, type, mem, off)
           [] type.type = "POINTER" -> json_parse_pointer(json, tokens, index, type, mem, off)
           [] OTHER -> Decoded(1, mem)

\* the call after tokenizing
json_to_value_tokens(json, type, mem, r) ==
    IF r.ret < 0 THEN Decoded(r.ret, mem)
    ELSE IF r.ret = 0 THEN Decoded(1, mem)
    ELSE json_parse_value(json, r.tokens, 0, type, mem, 0)

\* json_to_value(json, length, expected_tokens, &out) for out = (type, mem)
json_to_value(json, length, expected_tokens, type, mem) ==
    json_to_value_tokens(json, type, mem, jsmn_parse(json, length, expected_tokens))

----------------------------------------------------------------------------
(* Parsing: the encodings handed to parse_type *)

Encodings ==
    << "{A=i}",
       "{A=c}",
       "(A=i)",
       "{A}",
       "(A)",
       "{N=(?=i{$v$1=})(?=^{N}{$n$2=})}",
       "{B={A}{A=(?=Q{$len$3$no_serialise=})(?=^i{$nums$4$sized_by_len=})}{A}}",
       "^{A}",
       "{P=cqs[3i](U=cq)}",
       "r{A=i}",
       \* malformed: nothing where a type is expected
       "", "r", "^", "x", "^x", "[2]", "[2x]", "{A=x}", "(A=x)",
       \* malformed: truncated or missing closing marker
       "{A", "{A=i", "[2i", "^{A", "{B={A", "{A=i{$v", "{B={A=i}",
       "{A=(?=i{$v$1$m",
       \* malformed: array length is not a number
       "[x]" >>

\* the encodings of the table that are not well formed
Malformed == {e \in DOMAIN Encodings : e > 10}

\* what the modifiers word of an uninitialised allocation may hold
UninitModifiers == {0, 1, 2}

IdleJob == [kind |-> "none"]
NoResult == [kind |-> "none"]

InitParse ==
    /\ type_cache = <<>>
    /\ calls = <<>>
    /\ job = IdleJob
    /\ result = NoResult

\* the call has returned r: the cache is what it left, the call is recorded;
\* nomem tells that the allocator refused a request during the call
Parsed(e, r, nomem) ==
    /\ type_cache' = r.cache
    /\ calls' = Append(calls, [enc |-> e, rc |-> r.rc, type |-> r.type, pos |-> r.pos,
                               events |-> r.events, cache_before |-> type_cache,
                               nomem |-> nomem])

\* the call allocates a Type, for a pointee or an array element, which it
\* reads before having written all of it
ReadsUninitialised(s) == \E i \in 1..Len(s) : At(s, i) \in {"^", "["}

\* one call parse_type(&type, &enc) with type = {0}, as $reflect and the tests do;
\* the well-formed encodings that read an allocation are parsed with every g,
\* the others with g = 0
Parse(e, g) ==
    /\ Len(calls) < MaxCalls
    /\ g # 0 => (e \notin Malformed /\ ReadsUninitialised(Encodings[e]))
    /\ Parsed(e, parse_type(Encodings[e], 1, ZeroType, type_cache, g), FALSE)
    /\ UNCHANGED <<job, result>>

\* the encoding at p makes parse_type ask for memory before anything else can
\* fail: type_malloc for a pointee or an array element, buffer_create for the
\* name of a record or union
RequestsMemory(s, p) ==
    \/ At(s, p) = "^"
    \/ At(s, p) = "{" /\ strpbrk(s, p + 1, {"=", "}"}) # 0
    \/ At(s, p) = "(" /\ strpbrk(s, p + 1, {"=", ")"}) # 0
    \/ At(s, p) = "[" /\ strtol(s, p + 1).end # p + 1

\* parse_type when that first request returns a null pointer: return 1 with the
\* kind set and the cursor where it stood at the request
parse_type_no_memory(s, p, t1, cache) ==
    CASE At(s, p) = "^" -> Outcome(1, [t1 EXCEPT !.type = "POINTER"], p + 1, cache, <<>>)
      [] At(s, p) = "[" ->
            Outcome(1, [t1 EXCEPT !.type = "ARRAY", !.length = strtol(s, p + 1).val],
                    strtol(s, p + 1).end, cache, <<>>)
      [] OTHER ->
            Outcome(1, [t1 EXCEPT !.type = IF At(s, p) = "{" THEN "STRUCT" ELSE "UNION"],
                    p + 1, cache, <<>>)

\* one call parse_type(&type, &enc), on a well-formed encoding, during which
\* malloc returns a null pointer
ParseNoMemory(e) ==
    /\ Len(calls) < MaxCalls
    /\ e \notin Malformed
    /\ RequestsMemory(Encodings[e], SpanEnd(Encodings[e], 1, {"r"}))
    /\ Parsed(e, parse_type_no_memory(Encodings[e], SpanEnd(Encodings[e], 1, {"r"}),
                                      IF At(Encodings[e], 1) = "r"
                                      THEN [ZeroType EXCEPT
                                                !.modifiers = TypeModifiers_CONST]
                                      ELSE ZeroType,
                                      type_cache),
              TRUE)
    /\ UNCHANGED <<job, result>>

NextParse ==
    \/ \E e \in DOMAIN Encodings, g \in UninitModifiers : Parse(e, g)
    \/ \E e \in DOMAIN Encodings : ParseNoMemory(e)

SpecParse == InitParse /\ [][NextParse]_vars

----------------------------------------------------------------------------
(* History of the parser: every event of every call, oldest first *)

\* the events of the cache: definitions completed and references resolved
IsCacheEvent(e) == e.ev \in {"def", "ref"}

RECURSIVE EventsOf(_, _)
EventsOf(cs, k) ==
    IF k > Len(cs) THEN <<>>
    ELSE SelectSeq(cs[k].events, IsCacheEvent) \o EventsOf(cs, k + 1)

AllEvents == EventsOf(calls, 1)

IsPrefix(a, b) == Len(a) <= Len(b) /\ SubSeq(b, 1, Len(a)) = a

\* the cache as it was when event e happened (the cache only grows at its end)
CacheAt(e) == SubSeq(type_cache, 1, e.ncache)

\* the cache after call k
CacheAfter(k) == IF k < Len(calls) THEN calls[k + 1].cache_before ELSE type_cache

\* first event before position k that completed a definition of this kind and name
FirstDef(evs, k, kind, name) ==
    LET ds == {j \in 1..(k - 1) : /\ evs[j].ev = "def"
                                  /\ evs[j].type.type = kind
                                  /\ evs[j].type.name = name}
    IN IF ds = {} THEN 0 ELSE CHOOSE j \in ds : \A i \in ds : j <= i

----------------------------------------------------------------------------
(* Claims about the parser and the type cache *)

\* C1: two successive parse_type calls on the same record encoding both succeed
\* and produce equal Type.hash values, whatever the cache held before.
C1_HashEqualOnReparse ==
    \A k \in DOMAIN calls :
        (k > 1 /\ calls[k].enc = calls[k - 1].enc
               /\ calls[k].enc \notin Malformed
               /\ ~calls[k].nomem /\ ~calls[k - 1].nomem
               /\ calls[k].type.type = "STRUCT")
        => /\ calls[k].rc = 0 /\ calls[k - 1].rc = 0
           /\ calls[k].type.hash = calls[k - 1].type.hash

\* C2: a bare reference {N} parsed after record N was parsed with a complete
\* field list yields the field list of that first definition.
C2_BareRefHasFirstFields ==
    \A k \in DOMAIN AllEvents :
        LET e == AllEvents[k]
            d == FirstDef(AllEvents, k, "STRUCT", e.type.name)
        IN (e.ev = "ref" /\ e.type.type = "STRUCT" /\ d # 0)
           => e.type.fields = AllEvents[d].type.fields

----------------------------------------------------------------------------
(* The JSON codec: the record types, values and documents it is run on     *)

\* the third argument the tests give json_to_value
ExpectedTokens == 256

\* most members a document is built from
MaxMembers == 2

\* the record types, as the encodings the $field macro produces
SchemaEncodings ==
    << "{S=(?=c{$a$1=})(?=C{$b$2=})(?=B{$ok$3=})(?=*{$name$4=})}",
       "{P=(?=I{$len$1=})(?=^s{$nums$2$sized_by_len=})}",
       "{Q=(?=I{$len$1$no_deserialise=})(?=^s{$nums$2$sized_by_len=})}",
       "{R=(?=i{$id$1=})(?=I{$len$2$optional=})(?=^s{$nums$3$sized_by_len$optional=})(?=s{$x$4$optional=})}",
       "{T=(?=c{$n$1=})(?=*{$s$2$sized_by_n=})}",
       "{U=(?=i{$kind$1=})(?=(?=(?=s{$a$2$tag_value_1=})(?=*{$b$3$tag_value_2=})){$u$4$tagged_by_kind=})}",
       "{V=(?=i{$kind$1$no_deserialise=})(?=(?=(?=s{$a$2$tag_value_1=})(?=*{$b$3$tag_value_2=})){$u$4$tagged_by_kind=})(?=s{$x$5$optional=})}",
       "{W=(?=i{$kind$1$optional=})(?=(?=(?=s{$a$2$tag_value_1=})(?=*{$b$3$tag_value_2=})){$u$4$tagged_by_kind=})}",
       "{Y=(?=I{$len$1$optional=})(?=^s{$nums$2$sized_by_len$no_deserialise=})}",
       "{O=(?=i{$id$1=})(?={I=(?=c{$k$1$no_deserialise=})(?=c{$v$2=})}{$in$2=})}",
       "{F=(?=c{$a$1$no_serialise=})(?=c{$b$2=})(?=c{$c$3=})}",
       "{M=(?=c{$a$1=})(?=c{$b$2$no_serialise=})c(?=c{$c$3$serialise_as_sea=})}",
       "{L=(?=c{$a$1=})(?={I=(?=c{$k$1$no_serialise=})(?=c{$v$2=})}{$in$2=})(?=c{$c$3$no_serialise=})}",
       "{N=(?=c{$a$1$no_serialise=})c}",
       "{X=(?=i{$kind$1=})(?=^s{$nums$2$sized_by_kind=})(?=(?=(?=s{$a$2$tag_value_1=})(?=*{$b$3$tag_value_2=})){$u$4$tagged_by_kind=})}",
       "{K=(?=c{$c$1$serialise_as_sea$optional=})(?=c{$d$2$optional=})}",
       "{J=(?=c{$sea$1$optional=})(?=c{$c$2$serialise_as_sea$optional=})}" >>

Schemas ==
    [i \in DOMAIN SchemaEncodings |->
        parse_type(SchemaEncodings[i], 1, ZeroType, <<>>, 0).type]

\* the field of record t named name
FieldOf(t, name) == t.fields[get_value(t, name)]

\* a field set to the small number n (all the bytes of the field are written),
\* a pointer field set to the address of block
Num(name, n) == [name |-> name, pointer |-> FALSE, n |-> n, block |-> <<>>]
Ref(name, block) == [name |-> name, pointer |-> TRUE, n |-> 0, block |-> block]

RECURSIVE Assigned(_, _, _, _)
Assigned(t, mem, sets, i) ==
    IF i > Len(sets) THEN mem
    ELSE Assigned(t,
            IF sets[i].pointer
            THEN StorePointer(mem, FieldOf(t, sets[i].name).offset, sets[i].block)
            ELSE Store(mem, FieldOf(t, sets[i].name).offset,
                       FromNat(sets[i].n, type_size(FieldOf(t, sets[i].name).type))),
            sets, i + 1)

\* the zeroed object of a record type
Zeroed(t) == ZeroBlock(type_size(t))

\* the object of record type s, zeroed but for the fields set
Object(s, sets) == Assigned(Schemas[s], Zeroed(Schemas[s]), sets, 1)

\* an array of shorts
RECURSIVE ShortBytes(_, _)
ShortBytes(ns, i) ==
    IF i > Len(ns) THEN <<>> ELSE FromNat(ns[i], 2) \o ShortBytes(ns, i + 1)

Shorts(ns) == [bytes |-> ShortBytes(ns, 1), heap |-> <<>>]

\* the values handed to value_to_json, per record type. Lengths equal the
\* number of elements allocated and unsized text pointers are not null, as
\* the encoder's reads require.
EncodeValues ==
    << << Object(1, <<Num("a", 251), Num("b", 7), Num("ok", 1),
                      Ref("name", TextBlock(Chars("hi")))>>),
          Object(1, <<Num("b", 200), Ref("name", TextBlock(Chars("hi")))>>),
          Object(1, <<Num("a", 1), Ref("name", TextBlock(<<97, 34, 10, 92, 233>>))>>) >>,
       << Object(2, <<Num("len", 2), Ref("nums", Shorts(<<1, 65534>>))>>),
          Object(2, <<>>) >>,
       << Object(3, <<Num("len", 2), Ref("nums", Shorts(<<1, 2>>))>>) >>,
       << Object(4, <<Num("id", 9), Num("len", 1), Ref("nums", Shorts(<<5>>))>>) >>,
       << Object(5, <<Num("n", 4), Ref("s", TextBlock(<<97, 34, 10, 92>>))>>),
          Object(5, <<Num("n", 1), Ref("s", TextBlock(<<233>>))>>) >>,
       << Object(6, <<Num("kind", 1), Num("u", 7)>>),
          Object(6, <<Num("kind", 2), Ref("u", TextBlock(Chars("x")))>>),
          Object(6, <<Num("kind", 3)>>) >>,
       << Object(7, <<Num("kind", 1), Num("u", 7)>>) >>,
       << Object(8, <<Num("kind", 1), Num("u", 7)>>) >>,
       << Object(9, <<Num("len", 1), Ref("nums", Shorts(<<5>>))>>) >>,
       << Object(10, <<Num("id", 3), Num("in", 513)>>) >>,
       << Object(11, <<Num("a", 1), Num("b", 2), Num("c", 3)>>) >>,
       << Object(12, <<Num("a", 1), Num("b", 2), Num("c", 4)>>) >>,
       << Object(13, <<Num("a", 1), Num("in", 770), Num("c", 4)>>) >>,
       << Object(14, <<Num("a", 1)>>) >>,
       << >>,
       << Object(16, <<Num("c", 4), Num("d", 5)>>) >>,
       << Object(17, <<Num("sea", 3), Num("c", 4)>>) >> >>

\* the objects handed to json_to_value, per record type: zeroed, as the tests
\* do, or holding an earlier value
DecodeTargets ==
    << << >>,
       << Object(2, <<>>), Object(2, <<Num("len", 17)>>) >>,
       << Object(3, <<Num("len", 2)>>), Object(3, <<>>) >>,
       << Object(4, <<>>), Object(4, <<Num("id", 17), Num("len", 17), Num("x", 17)>>) >>,
       << Object(5, <<>>), Object(5, <<Num("n", 17)>>) >>,
       << Object(6, <<>>), Object(6, <<Num("kind", 2), Num("u", 17)>>) >>,
       << Object(7, <<Num("kind", 1), Num("x", 17)>>), Object(7, <<Num("kind", 2)>>) >>,
       << Object(8, <<>>), Object(8, <<Num("kind", 1)>>) >>,
       << Object(9, <<>>), Object(9, <<Num("len", 17)>>) >>,
       << Object(10, <<>>), Object(10, <<Num("in", 4369)>>) >>,
       << >>, << >>, << >>, << >>,
       << Object(15, <<>>), Object(15, <<Num("kind", 2)>>) >>,
       << Object(16, <<>>), Object(16, <<Num("c", 17), Num("d", 17)>>) >>,
       << Object(17, <<>>) >> >>

\* a member of a document: its key, the text of its value, and count: the
\* number a length literal denotes, the count of elements of an array, of
\* decoded bytes of a string, 0 for null
Member(key, text, count) == [key |-> key, text |-> text, count |-> count]

\* the members documents are built from, per record type
MemberPools ==
    << << >>,
       << Member("len", Json("2"), 2), Member("len", Json("3"), 3),
          Member("len", Json("0"), 0), Member("nums", Json("[1, 2]"), 2),
          Member("nums", Json("null"), 0), Member("nums", Json("[]"), 0) >>,
       << Member("len", Json("2"), 2), Member("len", Json("3"), 3),
          Member("nums", Json("[1, 2]"), 2), Member("nums", Json("null"), 0) >>,
       << Member("id", Json("1"), 0), Member("len", Json("2"), 2),
          Member("nums", Json("[1, 2]"), 2), Member("x", Json("5"), 0) >>,
       << Member("n", Json("3"), 3), Member("n", Json("4"), 4),
          Member("s", Json("'a\\nb'"), 3), Member("s", Json("null"), 0),
          Member("s", <<34>> \o Repeat(97, 128) \o <<34>>, 128) >>,
       << Member("kind", Json("1"), 0), Member("kind", Json("2"), 0),
          Member("kind", Json("3"), 0), Member("u", Json("7"), 0),
          Member("u", Json("'x'"), 0) >>,
       << Member("kind", Json("2"), 0), Member("u", Json("7"), 0),
          Member("u", Json("'x'"), 0), Member("x", Json("5"), 0) >>,
       << Member("kind", Json("1"), 0), Member("u", Json("7"), 0) >>,
       << Member("len", Json("2"), 2), Member("nums", Json("[1, 2]"), 2) >>,
       << Member("id", Json("1"), 0), Member("in", Json("{'k': 3, 'v': 4}"), 0),
          Member("in", Json("{'v': 4}"), 0) >>,
       << >>, << >>, << >>, << >>,
       << Member("kind", Json("1"), 1), Member("nums", Json("[5]"), 1),
          Member("u", Json("7"), 0) >>,
       << Member("sea", Json("4"), 4), Member("c", Json("5"), 5),
          Member("d", Json("6"), 6), Member("d", Json("'x'"), 0) >>,
       << Member("sea", Json("4"), 4), Member("c", Json("5"), 5) >> >>

\* the sequences of up to n distinct elements of 1..k
Arrangements(k, n) ==
    {d \in UNION {[1..m -> 1..k] : m \in 0..n} :
        \A i, j \in DOMAIN d : i # j => d[i] # d[j]}

\* the JSON text of the object with the given members, written as the
\* library's own encoder spaces it
RECURSIVE MembersText(_, _, _)
MembersText(pool, doc, i) ==
    IF i > Len(doc) THEN <<>>
    ELSE (IF i > 1 THEN Chars(", ") ELSE <<>>)
         \o <<34>> \o Chars(pool[doc[i]].key) \o <<34, 58, 32>> \o pool[doc[i]].text
         \o MembersText(pool, doc, i + 1)

DocText(pool, doc) == <<123>> \o MembersText(pool, doc, 1) \o <<125>>

\* the integer kinds, and the type each encodes
IntegerCodes == <<"c", "C", "s", "S", "i", "I", "l", "L", "q", "Q">>

NumberTypes ==
    [i \in DOMAIN IntegerCodes |-> parse_type(IntegerCodes[i], 1, ZeroType, <<>>, 0).type]

\* a decimal numeral: an optional sign and one or more digits. mag is its
\* magnitude, least significant byte first, in as many bytes as it takes
\* (eight at least); plain tells that the text is the one numeral of its
\* value that has neither a + nor a leading zero nor a negative zero
Numeral(text, neg, mag, plain) ==
    [text |-> text, numeral |-> TRUE, neg |-> neg, mag |-> mag, plain |-> plain]

\* a text that is no decimal numeral
NoNumeral(text) ==
    [text |-> text, numeral |-> FALSE, neg |-> FALSE, mag |-> <<>>, plain |-> FALSE]

\* the texts json_to_value is given for an integer, with what they denote
NumberTexts ==
    << Numeral("0", FALSE, <<0, 0, 0, 0, 0, 0, 0, 0>>, TRUE),
       Numeral("-0", TRUE, <<0, 0, 0, 0, 0, 0, 0, 0>>, FALSE),
       Numeral("7", FALSE, <<7, 0, 0, 0, 0, 0, 0, 0>>, TRUE),
       Numeral("+7", FALSE, <<7, 0, 0, 0, 0, 0, 0, 0>>, FALSE),
       Numeral("007", FALSE, <<7, 0, 0, 0, 0, 0, 0, 0>>, FALSE),
       Numeral("-1", TRUE, <<1, 0, 0, 0, 0, 0, 0, 0>>, TRUE),
       Numeral("127", FALSE, <<127, 0, 0, 0, 0, 0, 0, 0>>, TRUE),
       Numeral("128", FALSE, <<128, 0, 0, 0, 0, 0, 0, 0>>, TRUE),
       Numeral("-128", TRUE, <<128, 0, 0, 0, 0, 0, 0, 0>>, TRUE),
       Numeral("-129", TRUE, <<129, 0, 0, 0, 0, 0, 0, 0>>, TRUE),
       Numeral("200", FALSE, <<200, 0, 0, 0, 0, 0, 0, 0>>, TRUE),
       Numeral("255", FALSE, <<255, 0, 0, 0, 0, 0, 0, 0>>, TRUE),
       Numeral("256", FALSE, <<0, 1, 0, 0, 0, 0, 0, 0>>, TRUE),
       Numeral("32767", FALSE, <<255, 127, 0, 0, 0, 0, 0, 0>>, TRUE),
       Numeral("32768", FALSE, <<0, 128, 0, 0, 0, 0, 0, 0>>, TRUE),
       Numeral("-32768", TRUE, <<0, 128, 0, 0, 0, 0, 0, 0>>, TRUE),
       Numeral("-32769", TRUE, <<1, 128, 0, 0, 0, 0, 0, 0>>, TRUE),
       Numeral("65535", FALSE, <<255, 255, 0, 0, 0, 0, 0, 0>>, TRUE),
       Numeral("65536", FALSE, <<0, 0, 1, 0, 0, 0, 0, 0>>, TRUE),
       Numeral("2147483647", FALSE, <<255, 255, 255, 127, 0, 0, 0, 0>>, TRUE),
       Numeral("2147483648", FALSE, <<0, 0, 0, 128, 0, 0, 0, 0>>, TRUE),
       Numeral("-2147483648", TRUE, <<0, 0, 0, 128, 0, 0, 0, 0>>, TRUE),
       Numeral("-2147483649", TRUE, <<1, 0, 0, 128, 0, 0, 0, 0>>, TRUE),
       Numeral("4294967295", FALSE, <<255, 255, 255, 255, 0, 0, 0, 0>>, TRUE),
       Numeral("4294967296", FALSE, <<0, 0, 0, 0, 1, 0, 0, 0>>, TRUE),
       Numeral("9223372036854775807", FALSE,
               <<255, 255, 255, 255, 255, 255, 255, 127>>, TRUE),
       Numeral("9223372036854775808", FALSE, <<0, 0, 0, 0, 0, 0, 0, 128>>, TRUE),
       Numeral("-9223372036854775808", TRUE, <<0, 0, 0, 0, 0, 0, 0, 128>>, TRUE),
       Numeral("-9223372036854775809", TRUE, <<1, 0, 0, 0, 0, 0, 0, 128>>, TRUE),
       Numeral("18446744073709551615", FALSE,
               <<255, 255, 255, 255, 255, 255, 255, 255>>, TRUE),
       Numeral("18446744073709551616", FALSE, <<0, 0, 0, 0, 0, 0, 0, 0, 1>>, TRUE),
       Numeral("-18446744073709551616", TRUE, <<0, 0, 0, 0, 0, 0, 0, 0, 1>>, TRUE),
       NoNumeral(""), NoNumeral("-"), NoNumeral("+"), NoNumeral("--1"), NoNumeral("1-"),
       NoNumeral("12a"), NoNumeral("a12"), NoNumeral("1.5"), NoNumeral("1e3"),
       NoNumeral("0x10"), NoNumeral("true"), NoNumeral("false"), NoNumeral("null"),
       NoNumeral("'12'"), NoNumeral("[12]"), NoNumeral("{}") >>

\* the integer object json_to_value is given: every byte holds 17
NumberTarget(code) ==
    [bytes |-> Repeat(17, primitive_type_size(IntegerCodes[code])), heap |-> <<>>]

\* the width in bytes of integer kind `code`, and whether it is unsigned
NumberWidth(code) == primitive_type_size(IntegerCodes[code])
IsUnsignedKind(code) == IntegerCodes[code] \in {"C", "S", "I", "L", "Q"}

\* the numeral n denotes a value of integer kind `code`: the magnitude fits
\* the width, below the sign bit for a signed kind unless it is the least
\* value, and no unsigned kind takes a numeral with a minus sign
Representable(code, n) ==
    /\ \A i \in (NumberWidth(code) + 1)..Len(n.mag) : n.mag[i] = 0
    /\ IF IsUnsignedKind(code) THEN ~n.neg
       ELSE \/ n.mag[NumberWidth(code)] < 128
            \/ /\ n.neg
               /\ n.mag[NumberWidth(code)] = 128
               /\ \A i \in 1..(NumberWidth(code) - 1) : n.mag[i] = 0

\* the object of integer kind `code` that holds the value of n
StoredAs(code, n) ==
    [bytes |-> IF n.neg THEN Negate(SubSeq(n.mag, 1, NumberWidth(code)))
               ELSE SubSeq(n.mag, 1, NumberWidth(code)),
     heap |-> <<>>]

NumberJobs ==
    {[kind |-> "number", code |-> c, text |-> n] :
        c \in DOMAIN IntegerCodes, n \in DOMAIN NumberTexts}

\* the integer objects value_to_json is given: for every kind, the values of
\* its range among the numerals, each under the one text that denotes it
PrintJobs ==
    {j \in {[kind |-> "print", code |-> c, text |-> n] :
                c \in DOMAIN IntegerCodes, n \in DOMAIN NumberTexts} :
        /\ NumberTexts[j.text].plain
        /\ Representable(j.code, NumberTexts[j.text])}

\* the types get_value is called on: two records with unnamed members, one of
\* them with two members of the same name, a union, and a record of the codec
LookupEncodings ==
    << "{D=(?=c{$a$1=})c(?=i{$a$2=})(?=s{$b$3=})}",
       "{N=(?=c{$a$1$no_serialise=})c}",
       "(E=(?=i{$a$1=})(?=q{$b$2=}))",
       "{R=(?=i{$id$1=})(?=I{$len$2$optional=})(?=^s{$nums$3$sized_by_len$optional=})(?=s{$x$4$optional=})}" >>

LookupTypes ==
    [i \in DOMAIN LookupEncodings |->
        parse_type(LookupEncodings[i], 1, ZeroType, <<>>, 0).type]

\* the names asked for; the empty name is what an unnamed member would match
LookupNames == {"a", "b", "x", "len", "z", ""}

\* value.data
LookupAddresses == {64, 4096}

LookupJobs ==
    {[kind |-> "lookup", type |-> t, name |-> n, data |-> d] :
        t \in DOMAIN LookupTypes, n \in LookupNames, d \in LookupAddresses}

\* a union E outside any tagged_by dispatch: the type, a value of it for
\* value_to_json, a text for json_to_value (decoded into the zeroed object),
\* and whether the codec comes to a value of type E on the way: not in an
\* array without elements, behind a null pointer, or in a field that is
\* neither written nor required
UnionCase(enc, value, text, reached) ==
    [enc |-> enc, value |-> value, text |-> text, reached |-> reached]

UnionCases ==
    << UnionCase("(E=(?=i{$a$1=})(?=q{$b$2=}))", ZeroBlock(8), Json("5"), TRUE),
       UnionCase("[2(E=(?=i{$a$1=})(?=q{$b$2=}))]", ZeroBlock(16), Json("[5, 6]"), TRUE),
       UnionCase("[0(E=(?=i{$a$1=})(?=q{$b$2=}))]", ZeroBlock(0), Json("[]"), FALSE),
       UnionCase("^(E=(?=i{$a$1=})(?=q{$b$2=}))",
                 StorePointer(ZeroBlock(8), 0, ZeroBlock(8)), Json("5"), TRUE),
       UnionCase("^(E=(?=i{$a$1=})(?=q{$b$2=}))", ZeroBlock(8), Json("null"), FALSE),
       UnionCase("{G=(?=c{$a$1=})(?=(E=(?=i{$a$1=})(?=q{$b$2=})){$u$2=})}",
                 ZeroBlock(16), Json("{'a': 1, 'u': 5}"), TRUE),
       UnionCase("{G=(?=c{$a$1=})(?=(E=(?=i{$a$1=})(?=q{$b$2=})){$u$2=})}",
                 ZeroBlock(16), Json("{'u': 5, 'a': 1}"), TRUE),
       UnionCase("{H=(?=c{$a$1=})(?=(E=(?=i{$a$1=})(?=q{$b$2=})){$u$2$no_serialise$optional=})}",
                 ZeroBlock(16), Json("{'a': 1}"), FALSE) >>

UnionTypes ==
    [i \in DOMAIN UnionCases |-> parse_type(UnionCases[i].enc, 1, ZeroType, <<>>, 0).type]

UnionJobs ==
    {[kind |-> "union", case |-> c, encode |-> e] :
        c \in DOMAIN UnionCases, e \in BOOLEAN}

\* the records whose union field u is tagged by the field k of kind `code`:
\* members a and b share the literal 1, c has a hexadecimal literal, d a
\* negative one, e none
SelectEncoding(code) ==
    "{R=(?=" \o code \o "{$k$1=})(?=(?=(?=s{$a$1$tag_value_1=})(?=i{$b$2$tag_value_1=})"
        \o "(?=c{$c$3$tag_value_0x2=})(?=q{$d$4$tag_value_-1=})(?=C{$e$5=})){$u$2$tagged_by_k=})}"

SelectTypes ==
    [code \in {"i", "C", "B", "*"} |->
        parse_type(SelectEncoding(code), 1, ZeroType, <<>>, 0).type]

SelectType(code) == SelectTypes[code]

\* a discriminator: its kind, the bytes it holds (for text: the bytes of the
\* string, null when there is none), the JSON literal that decodes to it, and
\* the number or the text it stands for
SelectCase(code, stored, json, value, text) ==
    [code |-> code, stored |-> stored, json |-> json, value |-> value, text |-> text]

SelectCases ==
    << SelectCase("i", <<0, 0, 0, 0>>, Json("0"), <<0>>, <<>>),
       SelectCase("i", <<1, 0, 0, 0>>, Json("1"), <<1>>, <<>>),
       SelectCase("i", <<2, 0, 0, 0>>, Json("2"), <<2>>, <<>>),
       SelectCase("i", <<255, 255, 255, 255>>, Json("-1"), <<0 - 1>>, <<>>),
       SelectCase("i", <<3, 0, 0, 0>>, Json("3"), <<3>>, <<>>),
       SelectCase("C", <<1>>, Json("1"), <<1>>, <<>>),
       SelectCase("C", <<2>>, Json("2"), <<2>>, <<>>),
       SelectCase("C", <<255>>, Json("255"), <<255>>, <<>>),
       SelectCase("B", <<1>>, Json("true"), <<1>>, <<>>),
       SelectCase("B", <<0>>, Json("false"), <<0>>, <<>>),
       SelectCase("*", Chars("1"), Json("'1'"), <<>>, <<"1">>),
       SelectCase("*", Chars("0x2"), Json("'0x2'"), <<>>, <<"0x2">>),
       SelectCase("*", Chars("2"), Json("'2'"), <<>>, <<"2">>),
       SelectCase("*", Chars("e"), Json("'e'"), <<>>, <<"e">>),
       SelectCase("*", Chars("a"), Json("'a'"), <<>>, <<"a">>),
       SelectCase("*", <<>>, Json("null"), <<>>, <<>>) >>

\* the numbers the payload of the document denotes
SelectPayloads == {5, 200}

\* what the union's storage holds when it is encoded, and before it is decoded
UnionStored == <<135, 1, 1, 0, 1, 0, 0, 255>>
UnionBefore == Repeat(17, 8)

\* the record of a case with the discriminator set and the union holding b
SelectObject(c, b) ==
    Store(IF SelectCases[c].code = "*"
          THEN IF SelectCases[c].text = <<>> THEN Zeroed(SelectType("*"))
               ELSE StorePointer(Zeroed(SelectType("*")), 0, TextBlock(SelectCases[c].stored))
          ELSE Store(Zeroed(SelectType(SelectCases[c].code)), 0, SelectCases[c].stored),
          SelectType(SelectCases[c].code).fields[2].offset, b)

\* the document {"k": discriminator, "u": n} of a case
SelectText(c, n) ==
    Json("{'k': ") \o SelectCases[c].json \o Json(", 'u': ")
        \o (IF n >= 100 THEN <<48 + (n \div 100)>> ELSE <<>>)
        \o (IF n >= 10 THEN <<48 + ((n \div 10) % 10)>> ELSE <<>>)
        \o <<48 + (n % 10)>> \o Json("}")

\* the encoder reads the text of a discriminator, so it is given none that is null
SelectJobs ==
    {[kind |-> "select", case |-> c, encode |-> TRUE, payload |-> 0] :
        c \in {x \in DOMAIN SelectCases :
                SelectCases[x].code = "*" => SelectCases[x].text # <<>>}}
    \cup {[kind |-> "select", case |-> c, encode |-> FALSE, payload |-> n] :
            c \in DOMAIN SelectCases, n \in SelectPayloads}

\* the array types the codec is run on: fixed lengths 3, 2, 0 and 1
ArrayEncodings == <<"[3s]", "[2c]", "[0i]", "[1q]">>

ArrayTypes ==
    [i \in DOMAIN ArrayEncodings |-> parse_type(ArrayEncodings[i], 1, ZeroType, <<>>, 0).type]

\* the numbers the arrays hold and the documents list, in this order
ArrayNumbers == <<3, 1, 4, 1>>

\* the first n of them, w bytes each, as an array in memory
RECURSIVE ArrayBytes(_, _, _)
ArrayBytes(n, w, i) ==
    IF i > n THEN <<>> ELSE FromNat(ArrayNumbers[i], w) \o ArrayBytes(n, w, i + 1)

\* the JSON array of the first n of them
RECURSIVE ArrayItems(_, _)
ArrayItems(n, i) ==
    IF i > n THEN <<>>
    ELSE (IF i > 1 THEN Chars(", ") ELSE <<>>) \o <<48 + ArrayNumbers[i]>>
         \o ArrayItems(n, i + 1)

ArrayText(n) == Chars("[") \o ArrayItems(n, 1) \o Chars("]")

\* an array type and a count of elements: value_to_json is given the array
\* of the declared length, json_to_value a document of n elements
ArrayJobs ==
    {[kind |-> "array", type |-> t, n |-> n, encode |-> FALSE] :
        t \in DOMAIN ArrayTypes, n \in 0..Len(ArrayNumbers)}
    \cup {[kind |-> "array", type |-> t, n |-> ArrayTypes[t].length, encode |-> TRUE] :
            t \in DOMAIN ArrayTypes}

EncodeJobs ==
    UNION {{[kind |-> "encode", schema |-> s, mem |-> v, doc |-> <<>>] :
                v \in DOMAIN EncodeValues[s]} : s \in DOMAIN Schemas}

\* the documents of one member more in which a key stands twice, for the
\* records P and K
RepeatedKeyDocs(s) ==
    {d \in Arrangements(Len(MemberPools[s]), MaxMembers + 1) :
        /\ Len(d) = MaxMembers + 1
        /\ \E i, k \in DOMAIN d : i < k /\ MemberPools[s][d[i]].key = MemberPools[s][d[k]].key}

DecodeJobs ==
    UNION {{[kind |-> "decode", schema |-> s, mem |-> m, doc |-> d] :
                m \in DOMAIN DecodeTargets[s],
                d \in Arrangements(Len(MemberPools[s]), MaxMembers)
                        \cup (IF s \in {2, 16} THEN RepeatedKeyDocs(s) ELSE {})} :
           s \in DOMAIN Schemas}

\* what a job stands for
JobType(j) == Schemas[j.schema]
JobValue(j) == EncodeValues[j.schema][j.mem]
JobTarget(j) == DecodeTargets[j.schema][j.mem]
JobPool(j) == MemberPools[j.schema]
JobText(j) == DocText(MemberPools[j.schema], j.doc)

\* json_to_value on the text of a document of the job's record type
DecodeDoc(j, doc) ==
    json_to_value(DocText(JobPool(j), doc), Len(DocText(JobPool(j), doc)), ExpectedTokens,
                  JobType(j), JobTarget(j))

InitJson ==
    /\ type_cache = <<>>
    /\ calls = <<>>
    /\ job \in EncodeJobs \cup DecodeJobs \cup NumberJobs \cup PrintJobs \cup LookupJobs
                \cup UnionJobs \cup ArrayJobs \cup SelectJobs
    /\ result = NoResult

\* value_to_json(buf, value) has returned r
Encoded(r) ==
    result' = [kind |-> "encoded", rc |-> r.rc, out |-> r.out, text |-> StreamText(r.out, 1)]

\* value_to_json of a value that is no record has returned r
Printed(r) ==
    result' = [kind |-> "printed", rc |-> r.rc, out |-> r.out, text |-> StreamText(r.out, 1)]

Encode ==
    /\ job.kind = "encode"
    /\ result.kind = "none"
    /\ Encoded(value_to_json(JobType(job), JobValue(job), 0, 0, <<>>))
    /\ UNCHANGED <<type_cache, calls, job>>

\* json_to_value has returned r
DecodedAs(kind, r) ==
    result' = [kind |-> kind, rc |-> r.rc, mem |-> r.mem, seen |-> r.seen,
               derived |-> r.derived]

\* the round trip: the encoder's output decoded into a zeroed object
Redecode ==
    /\ result.kind = "encoded"
    /\ result.rc = 0
    /\ DecodedAs("redecoded",
                 json_to_value(result.text, Len(result.text), ExpectedTokens, JobType(job),
                               Zeroed(JobType(job))))
    /\ UNCHANGED <<type_cache, calls, job>>

Decode ==
    /\ job.kind = "decode"
    /\ result.kind = "none"
    /\ DecodedAs("decoded", DecodeDoc(job, job.doc))
    /\ UNCHANGED <<type_cache, calls, job>>

\* json_to_value of a text into an integer object
DecodeNumber ==
    /\ job.kind = "number"
    /\ result.kind = "none"
    /\ DecodedAs("number",
                 json_to_value(Json(NumberTexts[job.text].text),
                               Len(NumberTexts[job.text].text), ExpectedTokens,
                               NumberTypes[job.code], NumberTarget(job.code)))
    /\ UNCHANGED <<type_cache, calls, job>>

\* value_to_json of an integer object
EncodeNumber ==
    /\ job.kind = "print"
    /\ result.kind = "none"
    /\ Printed(value_to_json(NumberTypes[job.code],
                             StoredAs(job.code, NumberTexts[job.text]), 0, 0, <<>>))
    /\ UNCHANGED <<type_cache, calls, job>>

\* get_value(value, name) on a record or union at address job.data
GetValue ==
    /\ job.kind = "lookup"
    /\ result.kind = "none"
    /\ result' = [kind |-> "value",
                  value |-> get_value_result(LookupTypes[job.type], job.data,
                                             get_value(LookupTypes[job.type], job.name))]
    /\ UNCHANGED <<type_cache, calls, job>>

\* value_to_json of a value whose type holds a union that no tagged_by selects
EncodeUnion ==
    /\ job.kind = "union"
    /\ job.encode
    /\ result.kind = "none"
    /\ result' = [kind |-> "union",
                  rc |-> value_to_json(UnionTypes[job.case], UnionCases[job.case].value,
                                       0, 0, <<>>).rc]
    /\ UNCHANGED <<type_cache, calls, job>>

\* json_to_value into a zeroed object of such a type
DecodeUnion ==
    /\ job.kind = "union"
    /\ ~job.encode
    /\ result.kind = "none"
    /\ result' = [kind |-> "union",
                  rc |-> json_to_value(UnionCases[job.case].text,
                                       Len(UnionCases[job.case].text), ExpectedTokens,
                                       UnionTypes[job.case],
                                       Zeroed(UnionTypes[job.case])).rc]
    /\ UNCHANGED <<type_cache, calls, job>>

\* value_to_json of an array of the declared length
EncodeArray ==
    /\ job.kind = "array"
    /\ job.encode
    /\ result.kind = "none"
    /\ result' = [kind |-> "array",
                  rc |-> value_to_json(ArrayTypes[job.type],
                            [bytes |-> ArrayBytes(job.n, type_size(ArrayTypes[job.type].sub[1]), 1),
                             heap |-> <<>>], 0, 0, <<>>).rc,
                  text |-> StreamText(value_to_json(ArrayTypes[job.type],
                            [bytes |-> ArrayBytes(job.n, type_size(ArrayTypes[job.type].sub[1]), 1),
                             heap |-> <<>>], 0, 0, <<>>).out, 1),
                  mem |-> [bytes |-> ArrayBytes(job.n, type_size(ArrayTypes[job.type].sub[1]), 1),
                           heap |-> <<>>]]
    /\ UNCHANGED <<type_cache, calls, job>>

\* json_to_value of a document of job.n elements into a zeroed array
DecodeArray ==
    /\ job.kind = "array"
    /\ ~job.encode
    /\ result.kind = "none"
    /\ result' = [kind |-> "array",
                  rc |-> json_to_value(ArrayText(job.n), Len(ArrayText(job.n)),
                                       ExpectedTokens, ArrayTypes[job.type],
                                       Zeroed(ArrayTypes[job.type])).rc,
                  text |-> ArrayText(job.n),
                  mem |-> json_to_value(ArrayText(job.n), Len(ArrayText(job.n)),
                                        ExpectedTokens, ArrayTypes[job.type],
                                        Zeroed(ArrayTypes[job.type])).mem]
    /\ UNCHANGED <<type_cache, calls, job>>

\* value_to_json of a record whose union member the discriminator selects
EncodeTagged ==
    /\ job.kind = "select"
    /\ job.encode
    /\ result.kind = "none"
    /\ result' = [kind |-> "selected",
                  rc |-> value_to_json(SelectType(SelectCases[job.case].code),
                                       SelectObject(job.case, UnionStored), 0, 0, <<>>).rc,
                  out |-> value_to_json(SelectType(SelectCases[job.case].code),
                                        SelectObject(job.case, UnionStored), 0, 0, <<>>).out,
                  mem |-> SelectObject(job.case, UnionStored)]
    /\ UNCHANGED <<type_cache, calls, job>>

\* json_to_value of the document that holds the discriminator and a payload
DecodeTagged ==
    /\ job.kind = "select"
    /\ ~job.encode
    /\ result.kind = "none"
    /\ result' = [kind |-> "selected",
                  rc |-> json_to_value(SelectText(job.case, job.payload),
                                       Len(SelectText(job.case, job.payload)), ExpectedTokens,
                                       SelectType(SelectCases[job.case].code),
                                       Store(Zeroed(SelectType(SelectCases[job.case].code)),
                                             SelectType(SelectCases[job.case].code).fields[2].offset,
                                             UnionBefore)).rc,
                  out |-> <<>>,
                  mem |-> json_to_value(SelectText(job.case, job.payload),
                                        Len(SelectText(job.case, job.payload)), ExpectedTokens,
                                        SelectType(SelectCases[job.case].code),
                                        Store(Zeroed(SelectType(SelectCases[job.case].code)),
                                              SelectType(SelectCases[job.case].code).fields[2].offset,
                                              UnionBefore)).mem]
    /\ UNCHANGED <<type_cache, calls, job>>

NextJson ==
    \/ Encode \/ Redecode \/ Decode \/ DecodeNumber \/ EncodeNumber \/ GetValue
    \/ EncodeUnion \/ DecodeUnion \/ EncodeArray \/ DecodeArray
    \/ EncodeTagged \/ DecodeTagged

SpecJson == InitJson /\ [][NextJson]_vars

----------------------------------------------------------------------------
(* Reading a job's document and the memory of a field *)

\* the key of member i of the job's document, and what its value counts
KeyAt(j, i) == JobPool(j)[j.doc[i]].key
CountAt(j, i) == JobPool(j)[j.doc[i]].count

\* the first position of a member with the key, 0 when the key is absent
FirstPos(j, key) ==
    IF \E i \in DOMAIN j.doc : KeyAt(j, i) = key
    THEN CHOOSE i \in DOMAIN j.doc :
            KeyAt(j, i) = key /\ \A k \in DOMAIN j.doc : KeyAt(j, k) = key => i <= k
    ELSE 0

\* how often the key occurs
Occurrences(j, key) == Cardinality({i \in DOMAIN j.doc : KeyAt(j, i) = key})

\* the indices of the named fields of a record
Named(t) == {i \in DOMAIN t.fields : t.fields[i].name # <<>>}

\* the key under which a named field is read and written
KeyOf(t, i) == json_field_json_key(t.fields[i])[1]

\* what the first member for field i of record t counts
FirstCount(j, t, i) == CountAt(j, FirstPos(j, KeyOf(t, i)))

\* field g is a sized_by pointer or text field with companion c
IsSizedPair(t, g, c) ==
    /\ g \in Named(t)
    /\ json_field_length_name(t.fields[g]) # <<>>
    /\ t.fields[g].type.type = "POINTER" \/ IsCharPointer(t.fields[g].type)
    /\ c = json_find_field_index(t, json_field_length_name(t.fields[g])[1])
    /\ c # 0

\* field u is a tagged_by union field with discriminator k
IsTaggedPair(t, u, k) ==
    /\ u \in Named(t)
    /\ t.fields[u].type.type = "UNION"
    /\ json_field_tagged_by_name(t.fields[u]) # <<>>
    /\ k = json_find_field_index(t, json_field_tagged_by_name(t.fields[u])[1])
    /\ k # 0

\* the bytes of field i of the record at offset 0 of mem, and what the
\* pointers stored in them refer to
FieldContent(t, mem, i) ==
    [bytes |-> Load(mem, t.fields[i].offset, type_size(t.fields[i].type)),
     heap |-> [o \in {p \in DOMAIN mem.heap :
                        /\ p >= t.fields[i].offset
                        /\ p < t.fields[i].offset + type_size(t.fields[i].type)}
               |-> mem.heap[o]]]

\* the integer field i of the record read as a 64-bit value
FieldInteger(t, mem, i) == ReadInteger(t.fields[i].type.primitive, mem, t.fields[i].offset)

\* the pointer or text field g holds exactly count decoded elements
StoresCount(t, mem, g, count) ==
    IF IsNullAt(mem, t.fields[g].offset) THEN count = 0
    ELSE IF IsCharPointer(t.fields[g].type)
    THEN Len(Pointee(mem, t.fields[g].offset).bytes) = count + 1
    ELSE Len(Pointee(mem, t.fields[g].offset).bytes)
            = count * type_size(t.fields[g].type.sub[1])

\* some field of the type, at any depth, carries the modifier
RECURSIVE CarriesModifier(_, _)
CarriesModifier(t, m) ==
    \/ /\ t.type \in {"STRUCT", "UNION"}
       /\ \E i \in DOMAIN t.fields :
            field_has_modifier(t.fields[i], m) \/ CarriesModifier(t.fields[i].type, m)
    \/ /\ t.type \in {"ARRAY", "POINTER"}
       /\ CarriesModifier(t.sub[1], m)

----------------------------------------------------------------------------
(* Round trip *)

\* C4: for a record type with no no_serialise / no_deserialise field,
\* decoding the encoder's output into a zeroed object succeeds and leaves
\* the object equal to the value that was encoded.
C4_RoundTrip ==
    (/\ result.kind = "redecoded"
     /\ ~CarriesModifier(JobType(job), "no_serialise")
     /\ ~CarriesModifier(JobType(job), "no_deserialise"))
    => result.rc = 0 /\ result.mem = JobValue(job)

----------------------------------------------------------------------------
(* Lengths *)

\* the document has one literal for the length field c and one value for
\* its sized_by sibling g
HasPairOnce(j, t, g, c) ==
    /\ Occurrences(j, KeyOf(t, c)) = 1
    /\ Occurrences(j, KeyOf(t, g)) = 1

\* the pair has been decoded: both fields are seen, the length field holds
\* n and the sibling holds n elements
PairDecoded(t, r, g, c, n) ==
    /\ r.seen[g] /\ r.seen[c]
    /\ FieldInteger(t, r.mem, c) = FromNat(n, 8)
    /\ StoresCount(t, r.mem, g, n)

\* C5 as stated: whenever the object holds a literal for a length field and
\* its sized_by sibling, in either order, the decode fails if the literal
\* differs from the sibling's count and decodes the pair with that length
\* if they agree.
C5_LiteralMustMatch ==
    result.kind = "decoded" =>
        \A g, c \in Named(JobType(job)) :
            (/\ IsSizedPair(JobType(job), g, c)
             /\ FirstPos(job, KeyOf(JobType(job), c)) # 0
             /\ FirstPos(job, KeyOf(JobType(job), g)) # 0)
            => IF FirstCount(job, JobType(job), c) # FirstCount(job, JobType(job), g)
               THEN result.rc # 0
               ELSE PairDecoded(JobType(job), result, g, c, FirstCount(job, JobType(job), g))

\* C5, amended: for a sized_by pointer or text field and an integer length
\* field of which neither is no_deserialise, when each of the two keys occurs
\* once in the object, in either order: the decode fails if the literal
\* differs from the sibling's count, and if they agree a successful decode
\* has decoded the pair with that length.
C5_LiteralMustMatchDecodedPair ==
    result.kind = "decoded" =>
        \A g, c \in Named(JobType(job)) :
            (/\ IsSizedPair(JobType(job), g, c)
             /\ JobType(job).fields[c].type.type = "PRIMITIVE"
             /\ JobType(job).fields[c].type.primitive \in SignedCodes \cup UnsignedCodes
             /\ ~field_has_modifier(JobType(job).fields[g], "no_deserialise")
             /\ ~field_has_modifier(JobType(job).fields[c], "no_deserialise")
             /\ HasPairOnce(job, JobType(job), g, c))
            => IF FirstCount(job, JobType(job), c) # FirstCount(job, JobType(job), g)
               THEN result.rc # 0
               ELSE result.rc = 0
                    => PairDecoded(JobType(job), result, g, c,
                                   FirstCount(job, JobType(job), g))

\* a decode that failed because the literal, which came after the array,
\* differs from the derived length
C5_Witness ==
    /\ result.kind = "decoded"
    /\ result.rc # 0
    /\ \E g, c \in Named(JobType(job)) :
        /\ IsSizedPair(JobType(job), g, c)
        /\ ~field_has_modifier(JobType(job).fields[c], "no_deserialise")
        /\ HasPairOnce(job, JobType(job), g, c)
        /\ FirstPos(job, KeyOf(JobType(job), g)) < FirstPos(job, KeyOf(JobType(job), c))
        /\ FirstCount(job, JobType(job), c) # FirstCount(job, JobType(job), g)
        /\ result.derived[c]


----------------------------------------------------------------------------
(* Tagged unions *)

\* the document with member b moved to immediately before member a < b
MovedBefore(doc, a, b) ==
    SubSeq(doc, 1, a - 1) \o <<doc[b]>> \o SubSeq(doc, a, b - 1)
    \o SubSeq(doc, b + 1, Len(doc))

\* the document in which the first discriminator member and the first
\* payload member have changed their order
Reordered(j, pk, pu) ==
    IF pk < pu THEN MovedBefore(j.doc, pk, pu) ELSE MovedBefore(j.doc, pu, pk)

SameOutcome(r, q) == r.rc = q.rc /\ (r.rc = 0 => r.mem = q.mem)

\* C6: for a tagged_by union field and an object that contains the
\* discriminator key and the payload key, the decode has the same outcome
\* (the return value and, on success, the whole object: discriminator, member
\* selected and its value) as the decode of the object in which the two keys
\* come in the other order.
C6_TagOrderIrrelevant ==
    result.kind = "decoded" =>
        \A u, k \in Named(JobType(job)) :
            (/\ IsTaggedPair(JobType(job), u, k)
             /\ FirstPos(job, KeyOf(JobType(job), k)) # 0
             /\ FirstPos(job, KeyOf(JobType(job), u)) # 0)
            => SameOutcome(result,
                    DecodeDoc(job, Reordered(job, FirstPos(job, KeyOf(JobType(job), k)),
                                             FirstPos(job, KeyOf(JobType(job), u)))))

\* a successful decode of an object whose payload came first and was
\* deferred until the discriminator had been read
C6_Witness ==
    /\ result.kind = "decoded"
    /\ result.rc = 0
    /\ \E u, k \in Named(JobType(job)) :
        /\ IsTaggedPair(JobType(job), u, k)
        /\ ~field_has_modifier(JobType(job).fields[k], "no_deserialise")
        /\ FirstPos(job, KeyOf(JobType(job), u)) # 0
        /\ FirstPos(job, KeyOf(JobType(job), u)) < FirstPos(job, KeyOf(JobType(job), k))
        /\ FieldContent(JobType(job), result.mem, u)
            # FieldContent(JobType(job), JobTarget(job), u)

----------------------------------------------------------------------------
(* Required and optional fields *)

\* the input object supplies field f: by its key, or as the length of a
\* sized_by sibling whose key it holds
Supplied(j, t, f) ==
    \/ FirstPos(j, KeyOf(t, f)) # 0
    \/ \E g \in Named(t) : IsSizedPair(t, g, f) /\ FirstPos(j, KeyOf(t, g)) # 0

\* the memory of field f is as it was before the decode
Unchanged(j, t, r, f) == FieldContent(t, r.mem, f) = FieldContent(t, JobTarget(j), f)

\* the optional fields whose key the object lacks
AbsentOptional(j, t) ==
    {f \in Named(t) : /\ field_has_modifier(t.fields[f], "optional")
                      /\ FirstPos(j, KeyOf(t, f)) = 0}

\* a successful decode had every required field supplied
RequiredSupplied ==
    (result.kind = "decoded" /\ result.rc = 0) =>
        \A f \in Named(JobType(job)) :
            (/\ ~field_has_modifier(JobType(job).fields[f], "no_deserialise")
             /\ ~field_has_modifier(JobType(job).fields[f], "optional"))
            => Supplied(job, JobType(job), f)

\* the members of the pool, not in the document, that would supply field f
Supplying(j, t, f) ==
    {m \in DOMAIN JobPool(j) :
        /\ JobPool(j)[m].key = KeyOf(t, f)
        /\ \A i \in DOMAIN j.doc : j.doc[i] # m}

\* C7 as stated: a successful decode had every required field supplied, and
\* an absent optional field does not make the decode fail (the decode
\* succeeds whenever it succeeds with the field appended to the object) and
\* is left unchanged by a successful decode.
C7_RequiredElseOptionalUntouched ==
    /\ RequiredSupplied
    /\ result.kind = "decoded" =>
        \A f \in AbsentOptional(job, JobType(job)) :
            /\ result.rc = 0 => Unchanged(job, JobType(job), result, f)
            /\ \A m \in Supplying(job, JobType(job), f) :
                DecodeDoc(job, Append(job.doc, m)).rc = 0 => result.rc = 0

\* C7, amended: a successful decode had every required field supplied; an
\* absent optional field is left unchanged by a successful decode unless it
\* is the length companion of a sized_by field of the object, when it holds
\* the length derived from that sibling; and its absence does not make the
\* decode fail, unless it is the discriminator of a tagged-union payload of
\* the object or is itself a sized_by field.
C7_RequiredElseOptionalExempt ==
    /\ RequiredSupplied
    /\ result.kind = "decoded" =>
        \A f \in AbsentOptional(job, JobType(job)) :
            /\ result.rc = 0 =>
                \/ Unchanged(job, JobType(job), result, f)
                \/ \E g \in Named(JobType(job)) :
                    /\ IsSizedPair(JobType(job), g, f)
                    /\ FirstPos(job, KeyOf(JobType(job), g)) # 0
                    /\ FieldInteger(JobType(job), result.mem, f)
                        = FromNat(FirstCount(job, JobType(job), g), 8)
            /\ (/\ json_field_length_name(JobType(job).fields[f]) = <<>>
                /\ ~\E u \in Named(JobType(job)) :
                        /\ IsTaggedPair(JobType(job), u, f)
                        /\ FirstPos(job, KeyOf(JobType(job), u)) # 0)
               => \A m \in Supplying(job, JobType(job), f) :
                    DecodeDoc(job, Append(job.doc, m)).rc = 0 => result.rc = 0

\* a successful decode of an object that lacks an optional field which is no
\* one's length, and with it the object also decodes
C7_Witness ==
    /\ result.kind = "decoded"
    /\ result.rc = 0
    /\ \E f \in AbsentOptional(job, JobType(job)) :
        /\ ~Supplied(job, JobType(job), f)
        /\ ~field_has_modifier(JobType(job).fields[f], "no_deserialise")
        /\ Unchanged(job, JobType(job), result, f)
        /\ FieldContent(JobType(job), result.mem, f)
            # FieldContent(JobType(job), Zeroed(JobType(job)), f)
        /\ \E m \in Supplying(job, JobType(job), f) :
            DecodeDoc(job, Append(job.doc, m)).rc = 0
    /\ \E f \in Named(JobType(job)) :
        /\ ~field_has_modifier(JobType(job).fields[f], "optional")
        /\ result.seen[f]

----------------------------------------------------------------------------
(* no_deserialise *)

\* the offsets of the bytes of the no_deserialise fields of the record at
\* off, those of the records embedded in it included
RECURSIVE Frozen(_, _)
Frozen(t, off) ==
    UNION {IF field_has_modifier(t.fields[i], "no_deserialise")
           THEN {off + t.fields[i].offset + b : b \in 0..(type_size(t.fields[i].type) - 1)}
           ELSE IF t.fields[i].type.type = "STRUCT"
           THEN Frozen(t.fields[i].type, off + t.fields[i].offset)
           ELSE {} : i \in DOMAIN t.fields}

\* byte o of the object, and what a pointer stored at o refers to, are in m
\* as in n
SameAt(m, n, o) ==
    /\ m.bytes[o + 1] = n.bytes[o + 1]
    /\ (o \in DOMAIN m.heap) = (o \in DOMAIN n.heap)
    /\ o \in DOMAIN m.heap => m.heap[o] = n.heap[o]

\* C8: whatever json_to_value returns, the memory of every no_deserialise
\* field is as it was before the call: also when the object holds its key,
\* when the field is the length of a decoded sized_by field and when it is
\* the discriminator of a decoded tagged union.
C8_NoDeserialiseFrozen ==
    result.kind = "decoded" =>
        \A o \in Frozen(JobType(job), 0) : SameAt(result.mem, JobTarget(job), o)

\* a successful decode of an object that holds, for a no_deserialise length
\* field, a literal other than the field's value, next to the sized_by field
C8_Witness ==
    /\ result.kind = "decoded"
    /\ result.rc = 0
    /\ \E g, c \in Named(JobType(job)) :
        /\ IsSizedPair(JobType(job), g, c)
        /\ field_has_modifier(JobType(job).fields[c], "no_deserialise")
        /\ FirstPos(job, KeyOf(JobType(job), c)) # 0
        /\ FirstPos(job, KeyOf(JobType(job), g)) # 0
        /\ result.seen[c]
        /\ FieldInteger(JobType(job), JobTarget(job), c)
            # FromNat(FirstCount(job, JobType(job), c), 8)
        /\ ~Unchanged(job, JobType(job), result, g)

----------------------------------------------------------------------------
(* The members the encoder writes *)

\* the named fields of a record that are not no_serialise, and the k-th of
\* them in declaration order
Serialised(t) == {i \in Named(t) : ~field_has_modifier(t.fields[i], "no_serialise")}

NthSerialised(t, k) ==
    CHOOSE i \in Serialised(t) : Cardinality({j \in Serialised(t) : j <= i}) = k

\* what the stream from chunk i to chunk n holds of brackets, separators and
\* keys written at depth d
RECURSIVE Structure(_, _, _, _)
Structure(out, d, i, n) ==
    IF i > n THEN <<>>
    ELSE IF out[i].depth = d /\ out[i].role # "value"
    THEN <<[text |-> out[i].text, role |-> out[i].role]>> \o Structure(out, d, i + 1, n)
    ELSE Structure(out, d, i + 1, n)

\* s is an opening brace, one key per serialised field of t in declaration
\* order with one ", " between consecutive keys, and a closing brace
RecordShape(s, t) ==
    /\ Len(s) = IF Serialised(t) = {} THEN 2 ELSE 2 * Cardinality(Serialised(t)) + 1
    /\ s[1] = [text |-> Chars("{"), role |-> "open"]
    /\ s[Len(s)] = [text |-> Chars("}"), role |-> "close"]
    /\ \A k \in 1..Cardinality(Serialised(t)) :
        s[2 * k] = [text |-> <<34>> \o Chars(KeyOf(t, NthSerialised(t, k))) \o <<34, 58, 32>>,
                    role |-> "key"]
    /\ \A k \in 1..(Cardinality(Serialised(t)) - 1) :
        s[2 * k + 1] = [text |-> Chars(", "), role |-> "sep"]

\* the chunk after p at which the record of depth d goes on
NextAt(out, d, p) ==
    CHOOSE q \in (p + 1)..Len(out) :
        /\ out[q].depth = d /\ out[q].role # "value"
        /\ \A x \in (p + 1)..(q - 1) : ~(out[x].depth = d /\ out[x].role # "value")

\* the position of the key of the k-th member written at depth 1
KeyPos(out, k) ==
    CHOOSE p \in DOMAIN out :
        /\ out[p].depth = 1 /\ out[p].role = "key"
        /\ Cardinality({x \in 1..p : out[x].depth = 1 /\ out[x].role = "key"}) = k

\* C9: a successful value_to_json of a record wrote exactly one member (a key
\* and then one value) for each named field that is not no_serialise, in
\* declaration order, none for a no_serialise or unnamed field, and exactly
\* one ", " between consecutive members, none before the first or after the
\* last; the same holds of a record that is the value of a member.
C9_MembersAndSeparators ==
    (result.kind = "encoded" /\ result.rc = 0) =>
        /\ RecordShape(Structure(result.out, 1, 1, Len(result.out)), JobType(job))
        /\ \A p \in DOMAIN result.out :
            (result.out[p].depth = 1 /\ result.out[p].role = "key")
            => /\ p < Len(result.out)
               /\ \/ result.out[p + 1].depth = 1 /\ result.out[p + 1].role = "value"
                  \/ result.out[p + 1].depth = 2 /\ result.out[p + 1].role = "open"
        /\ \A k \in 1..Cardinality(Serialised(JobType(job))) :
            JobType(job).fields[NthSerialised(JobType(job), k)].type.type = "STRUCT"
            => RecordShape(
                    Structure(result.out, 2, KeyPos(result.out, k),
                              NextAt(result.out, 1, KeyPos(result.out, k))),
                    JobType(job).fields[NthSerialised(JobType(job), k)].type)

\* a successful encode of a record of which a field between two members is
\* no_serialise
C9_Witness ==
    /\ result.kind = "encoded"
    /\ result.rc = 0
    /\ \E i, j, k \in DOMAIN JobType(job).fields :
        /\ i < j /\ j < k
        /\ i \in Serialised(JobType(job))
        /\ k \in Serialised(JobType(job))
        /\ field_has_modifier(JobType(job).fields[j], "no_serialise")
    /\ \E p \in DOMAIN result.out : result.out[p].role = "sep"

----------------------------------------------------------------------------
(* Derived lengths *)

\* the companion c of g has not appeared when g first appears
NotBefore(j, t, g, c) ==
    \/ FirstPos(j, KeyOf(t, c)) = 0
    \/ FirstPos(j, KeyOf(t, g)) < FirstPos(j, KeyOf(t, c))

\* the length derived from g is in c, c counts as seen, g holds that many
\* elements
LengthDerived(j, t, r, g, c) ==
    /\ FieldInteger(t, r.mem, c) = FromNat(FirstCount(j, t, g), 8)
    /\ r.seen[c]
    /\ StoresCount(t, r.mem, g, FirstCount(j, t, g))

\* the count of g does not fit the integer type of c
Overflows(j, t, g, c) ==
    ULess(IntegerMax(t.fields[c].type.primitive), FromNat(FirstCount(j, t, g), 8))

\* C10 as stated: when a sized_by pointer or text field is in the object and
\* its companion, not no_deserialise, has not appeared before it, a
\* successful decode has written the count into the companion, counts the
\* companion as seen and has stored that many elements; a count that
\* does not fit the companion's type fails the decode.
C10_LengthDerived ==
    result.kind = "decoded" =>
        \A g, c \in Named(JobType(job)) :
            (/\ IsSizedPair(JobType(job), g, c)
             /\ FirstPos(job, KeyOf(JobType(job), g)) # 0
             /\ ~field_has_modifier(JobType(job).fields[c], "no_deserialise")
             /\ NotBefore(job, JobType(job), g, c))
            => /\ result.rc = 0 => LengthDerived(job, JobType(job), result, g, c)
               /\ Overflows(job, JobType(job), g, c) => result.rc # 0

\* C10, amended: the same when the sized_by field is not itself
\* no_deserialise.
C10_LengthDerivedFromDecodedField ==
    result.kind = "decoded" =>
        \A g, c \in Named(JobType(job)) :
            (/\ IsSizedPair(JobType(job), g, c)
             /\ FirstPos(job, KeyOf(JobType(job), g)) # 0
             /\ ~field_has_modifier(JobType(job).fields[g], "no_deserialise")
             /\ ~field_has_modifier(JobType(job).fields[c], "no_deserialise")
             /\ NotBefore(job, JobType(job), g, c))
            => /\ result.rc = 0 => LengthDerived(job, JobType(job), result, g, c)
               /\ Overflows(job, JobType(job), g, c) => result.rc # 0

\* a successful decode that derived the length of a text from an object
\* without the companion's key, over an earlier value of the companion
C10_Witness ==
    /\ result.kind = "decoded"
    /\ result.rc = 0
    /\ \E g, c \in Named(JobType(job)) :
        /\ IsSizedPair(JobType(job), g, c)
        /\ IsCharPointer(JobType(job).fields[g].type)
        /\ FirstPos(job, KeyOf(JobType(job), g)) # 0
        /\ FirstPos(job, KeyOf(JobType(job), c)) = 0
        /\ result.derived[c]
        /\ FirstCount(job, JobType(job), g) > 0
        /\ FieldInteger(JobType(job), result.mem, c)
            = FromNat(FirstCount(job, JobType(job), g), 8)
        /\ FieldInteger(JobType(job), JobTarget(job), c)
            # FieldInteger(JobType(job), result.mem, c)

----------------------------------------------------------------------------
(* Tagged unions whose discriminator key is missing *)

\* the object holds a key for the payload u but none for its discriminator k,
\* which is read from the input
PayloadWithoutTagKey(j, t, u, k) ==
    /\ IsTaggedPair(t, u, k)
    /\ ~field_has_modifier(t.fields[k], "no_deserialise")
    /\ ~field_has_modifier(t.fields[u], "no_deserialise")
    /\ FirstPos(j, KeyOf(t, u)) # 0
    /\ FirstPos(j, KeyOf(t, k)) = 0

\* C18 as stated: when the payload key of a tagged union appears in the object
\* and the key of its discriminator, which is not no_deserialise, never does,
\* json_to_value fails.
C18_PayloadNeedsTagKey ==
    result.kind = "decoded" =>
        \A u, k \in Named(JobType(job)) :
            PayloadWithoutTagKey(job, JobType(job), u, k) => result.rc # 0

\* the object {"kind": n, "u": payload} decoded into a zeroed record U, whose
\* discriminator kind is read from the input: n is a digit, payload the text
\* of member m of the job's pool
DecodedWithTag(j, n, m) ==
    json_to_value(DocText(<<Member("kind", <<48 + n>>, 0), JobPool(j)[m]>>, <<1, 2>>),
                  Len(DocText(<<Member("kind", <<48 + n>>, 0), JobPool(j)[m]>>, <<1, 2>>)),
                  ExpectedTokens, Schemas[6], Zeroed(Schemas[6]))

\* the decode r selected the union member for field u as the decode q did
SameMember(t, r, u, q) ==
    /\ r.rc = q.rc
    /\ r.rc = 0 => FieldContent(t, r.mem, u) = FieldContent(Schemas[6], q.mem, 2)

\* C18 amended: when the payload key of a tagged union appears in the object
\* and its discriminator, which is not no_deserialise, is supplied neither by
\* its own key nor as the length of a sized_by sibling, json_to_value fails,
\* also when the discriminator is optional. When the discriminator is
\* no_deserialise (record V, which is U with that modifier), the payload is
\* decoded as the member that the discriminator's value in memory selects,
\* wherever its key stands and whether or not it is there, and the
\* discriminator keeps its value.
C18_PayloadNeedsTagSupplied ==
    result.kind = "decoded" =>
        \A u, k \in Named(JobType(job)) :
            /\ (/\ PayloadWithoutTagKey(job, JobType(job), u, k)
                /\ ~Supplied(job, JobType(job), k))
               => result.rc # 0
            /\ (/\ job.schema = 7
                /\ IsTaggedPair(JobType(job), u, k)
                /\ field_has_modifier(JobType(job).fields[k], "no_deserialise")
                /\ FirstPos(job, KeyOf(JobType(job), u)) # 0)
               => /\ SameMember(JobType(job), result, u,
                        DecodedWithTag(job,
                            FieldContent(JobType(job), JobTarget(job), k).bytes[1],
                            job.doc[FirstPos(job, KeyOf(JobType(job), u))]))
                  /\ Unchanged(job, JobType(job), result, k)

\* the payload alone, sent to a record whose discriminator is optional and
\* holds a matching value in memory: the decode fails
C18_Witness ==
    /\ result.kind = "decoded"
    /\ result.rc # 0
    /\ \E u, k \in Named(JobType(job)) :
        /\ PayloadWithoutTagKey(job, JobType(job), u, k)
        /\ ~Supplied(job, JobType(job), k)
        /\ field_has_modifier(JobType(job).fields[k], "optional")
        /\ FieldContent(JobType(job), JobTarget(job), k).bytes[1] = 1
        /\ Len(job.doc) = 1


----------------------------------------------------------------------------
(* Tagged unions in the encoder *)

\* the members of the union field u whose tag value is the decimal numeral of
\* the small number the discriminator k holds in mem
Selected(t, mem, u, k) ==
    {m \in DOMAIN t.fields[u].type.fields :
        /\ FieldContent(t, mem, k).bytes[1] < 10
        /\ json_union_field_tag_value(t.fields[u].type.fields[m])
            = <<SubSeq("0123456789", FieldContent(t, mem, k).bytes[1] + 1,
                       FieldContent(t, mem, k).bytes[1] + 1)>>}

\* the text of the chunks i..n of the stream
RECURSIVE TextBetween(_, _, _)
TextBetween(out, i, n) ==
    IF i > n THEN <<>> ELSE out[i].text \o TextBetween(out, i + 1, n)

\* the position of the key written at depth 1 for field f of record t
KeyPosOf(out, t, f) ==
    KeyPos(out, Cardinality({j \in Serialised(t) : j <= f}))

\* what value_to_json writes for member m of the union field u alone
MemberText(t, mem, u, m) ==
    StreamText(value_to_json(t.fields[u].type.fields[m].type, mem,
                             t.fields[u].offset + t.fields[u].type.fields[m].offset,
                             1, <<>>).out, 1)

\* C19: value_to_json on a record with a tagged_by union field fails when no
\* member's tag value matches the discriminator's current value; when it
\* succeeds, what stands under the union field's key, up to the next separator
\* or the closing brace of the record, is the encoding of the selected member
\* and nothing else: it opens no object of its own.
C19_SelectedMemberOnly ==
    result.kind = "encoded" =>
        \A u, k \in Named(JobType(job)) :
            (IsTaggedPair(JobType(job), u, k) /\ u \in Serialised(JobType(job)))
            => IF Selected(JobType(job), JobValue(job), u, k) = {} THEN result.rc # 0
               ELSE result.rc = 0
                    => \E m \in Selected(JobType(job), JobValue(job), u, k) :
                        /\ TextBetween(result.out, KeyPosOf(result.out, JobType(job), u) + 1,
                                NextAt(result.out, 1,
                                       KeyPosOf(result.out, JobType(job), u)) - 1)
                            = MemberText(JobType(job), JobValue(job), u, m)
                        /\ result.out[KeyPosOf(result.out, JobType(job), u) + 1].role
                            = "value"
                        /\ result.out[KeyPosOf(result.out, JobType(job), u) + 1].depth = 1

\* the record U with kind = 2 encoded: under "u" stands the text of member b,
\* the second member of the union
C19_Witness ==
    /\ result.kind = "encoded"
    /\ result.rc = 0
    /\ job.schema = 6
    /\ Selected(JobType(job), JobValue(job), 2, 1) = {2}
    /\ result.text = Json("{'kind': 2, 'u': 'x'}")

----------------------------------------------------------------------------
(* Unions outside a tagged_by dispatch *)

\* C20: when value_to_json or json_to_value comes to a value of a union type
\* outside a record's tagged_by dispatch (the top-level value, an element of an
\* array, the pointee of a non-null pointer, a record field without tagged_by)
\* it returns failure; where it does not come to one, the call succeeds.
C20_UnionOutsideDispatch ==
    result.kind = "union" => (UnionCases[job.case].reached <=> result.rc # 0)

\* json_to_value has refused {"u": 5, "a": 1} for the record G, whose field
\* u is a union without tagged_by
C20_Witness ==
    /\ result.kind = "union"
    /\ ~job.encode
    /\ UnionTypes[job.case].type = "STRUCT"
    /\ UnionTypes[job.case].fields[2].type.type = "UNION"
    /\ json_field_tagged_by_name(UnionTypes[job.case].fields[2]) = <<>>
    /\ UnionCases[job.case].reached
    /\ result.rc # 0


----------------------------------------------------------------------------
(* Integers *)

\* C11: json_to_value of a text into an integer object succeeds if and only
\* if the text is a decimal numeral (an optional sign and digits) of a value
\* in the range of the object's width and signedness, a numeral with a minus
\* sign never being one for an unsigned kind, and then the object holds
\* exactly that value; otherwise it fails and the object is as it was.
C11_IntegerTokens ==
    result.kind = "number" =>
        IF NumberTexts[job.text].numeral /\ Representable(job.code, NumberTexts[job.text])
        THEN result.rc = 0 /\ result.mem = StoredAs(job.code, NumberTexts[job.text])
        ELSE result.rc # 0 /\ result.mem = NumberTarget(job.code)

\* the least value of int has been decoded into an int
C11_Witness ==
    /\ result.kind = "number"
    /\ result.rc = 0
    /\ IntegerCodes[job.code] = "i"
    /\ NumberTexts[job.text].neg
    /\ NumberTexts[job.text].mag[4] = 128
    /\ result.mem.bytes = <<0, 0, 0, 128>>

\* C12: value_to_json of an integer object of any width and signedness
\* succeeds and writes the decimal numeral of the value the object holds.
C12_IntegerNumerals ==
    result.kind = "printed" =>
        result.rc = 0 /\ result.text = Chars(NumberTexts[job.text].text)
----------------------------------------------------------------------------
(* Claims about field lookup                                               *)

\* the named fields of type t whose name is name
FieldsNamed(t, name) == {i \in DOMAIN t.fields : t.fields[i].name = <<name>>}

\* C17: get_value(value, name) on a record or union returns, for the first
\* field in declaration order whose name equals name, the Value with data =
\* value.data + the field's offset and the field's type; it returns the absent
\* Value (null data) when no named field matches, an unnamed field matching no
\* name.
C17_GetValue ==
    result.kind = "value"
    => IF FieldsNamed(LookupTypes[job.type], job.name) = {}
       THEN result.value.data = 0
       ELSE \E i \in FieldsNamed(LookupTypes[job.type], job.name) :
               /\ \A j \in FieldsNamed(LookupTypes[job.type], job.name) : i <= j
               /\ result.value.data = job.data + LookupTypes[job.type].fields[i].offset
               /\ result.value.type = LookupTypes[job.type].fields[i].type

\* "a" looked up in D = {char a; char; int a; short b}: the char at offset 0,
\* not the int at offset 4
C17_Witness ==
    /\ result.kind = "value"
    /\ job.type = 1 /\ job.name = "a" /\ job.data = 64
    /\ Cardinality(FieldsNamed(LookupTypes[1], "a")) = 2
    /\ result.value.data = 64
    /\ result.value.type.primitive = "c"

----------------------------------------------------------------------------
(* Claims about the parser's results                                       *)

\* C13: parse_type returns a non-zero result for every malformed encoding:
\* an unexpected character where a type is expected, a missing closing marker,
\* a truncated string (the empty string, a lone '^' or 'r' included) or an array
\* length that is not a number.
C13_MalformedRejected ==
    \A k \in DOMAIN calls : calls[k].enc \in Malformed => calls[k].rc # 0

\* C14: the failure result of parse_type tells the two failure kinds apart: a
\* call that fails on the syntax of its encoding, also inside a pointee, an array
\* element, a record field or a field tag, never returns what a call returns
\* that failed because the allocator refused memory.
C14_SyntaxFailureDistinct ==
    \A j, k \in DOMAIN calls :
        (calls[j].nomem /\ ~calls[k].nomem /\ calls[k].enc \in Malformed
            /\ calls[k].rc # 0)
        => calls[k].rc # calls[j].rc

\* the name inside a bare reference "{N}" or "(N)"
ReferenceName(s) == SubSeq(s, 2, Len(s) - 1)

\* call k parsed a bare reference, with memory, whose name no cache entry had
UnknownReference(k) ==
    /\ Encodings[calls[k].enc] \in {"{A}", "(A)"}
    /\ ~calls[k].nomem
    /\ FirstNamed(calls[k].cache_before, ReferenceName(Encodings[calls[k].enc])) = 0

\* C15: parse_type on a bare reference {N} or (N) whose name is not in the type
\* cache succeeds with a record, respectively a union, named N that has no
\* fields, leaves the cursor after the close marker and adds no cache entry;
\* no entry of the cache is a type without fields.
C15_UnknownReference ==
    /\ \A k \in DOMAIN calls :
          UnknownReference(k)
          => /\ calls[k].rc = 0
             /\ calls[k].type.type =
                    (IF At(Encodings[calls[k].enc], 1) = "{" THEN "STRUCT" ELSE "UNION")
             /\ calls[k].type.name = ReferenceName(Encodings[calls[k].enc])
             /\ calls[k].type.fields = <<>>
             /\ calls[k].pos = Len(Encodings[calls[k].enc]) + 1
             /\ CacheAfter(k) = calls[k].cache_before
    /\ \A i \in DOMAIN type_cache : type_cache[i].type.fields # <<>>

\* a union reference parsed while the cache holds another name only
C15_Witness ==
    \E k \in DOMAIN calls :
        /\ UnknownReference(k)
        /\ Encodings[calls[k].enc] = "(A)"
        /\ calls[k].cache_before # <<>>
        /\ calls[k].rc = 0
        /\ calls[k].type.fields = <<>>
        /\ CacheAfter(k) = calls[k].cache_before

\* the records and unions inside type t, t included
RECURSIVE AggregatesIn(_)
AggregatesIn(t) ==
    (IF t.type \in {"STRUCT", "UNION"} THEN {t} ELSE {})
    \cup UNION {AggregatesIn(t.sub[i]) : i \in DOMAIN t.sub}
    \cup UNION {AggregatesIn(t.fields[i].type) : i \in DOMAIN t.fields}

\* the records and unions that the successful calls have produced
Produced ==
    UNION {AggregatesIn(calls[k].type) : k \in {j \in DOMAIN calls : calls[j].rc = 0}}

\* where the running offset stands before field i of record t
RunningOffset(t, i) ==
    IF i = 1 THEN 0 ELSE t.fields[i - 1].offset + type_size(t.fields[i - 1].type)

\* C16: in every record produced by parse_type the field offsets do not decrease
\* in declaration order, each is a multiple of the natural alignment of its
\* field and equals the running offset (offset plus size of the field before)
\* rounded up to that alignment; every member of a union has offset 0.
C16_FieldOffsets ==
    \A t \in Produced :
        \A i \in DOMAIN t.fields :
            IF t.type = "UNION" THEN t.fields[i].offset = 0
            ELSE /\ i > 1 => t.fields[i - 1].offset <= t.fields[i].offset
                 /\ t.fields[i].offset % type_alignment(t.fields[i].type) = 0
                 /\ t.fields[i].offset >= RunningOffset(t, i)
                 /\ t.fields[i].offset - RunningOffset(t, i)
                        < type_alignment(t.fields[i].type)

\* the record P = {char, long long, short, int[3], union U} has been produced
\* with padding before its second and its last member
C16_Witness ==
    \E t \in Produced :
        /\ t.type = "STRUCT" /\ t.name = "P"
        /\ [i \in DOMAIN t.fields |-> t.fields[i].offset] = <<0, 8, 16, 20, 32>>
        /\ \A i \in DOMAIN t.fields[5].type.fields : t.fields[5].type.fields[i].offset = 0
        /\ Len(t.fields[5].type.fields) = 2


----------------------------------------------------------------------------
(* The cache and failed calls; the immutability flag of a reference *)

\* C27: a parse_type call that returns failure leaves the type cache as it was
\* before the call: no record or union completed inside an encoding that is
\* later found malformed is registered.
C27_FailureLeavesCache ==
    \A k \in DOMAIN calls :
        calls[k].rc # 0 => CacheAfter(k) = calls[k].cache_before

\* C29: a bare reference without the immutability marker in front of it
\* yields a type without the flag, whose hash is that of the unmarked type,
\* also when the definition it resolves to was parsed with the marker.
C29_BareReferenceUnmarked ==
    \A k \in DOMAIN calls :
        (Encodings[calls[k].enc] \in {"{A}", "(A)"} /\ calls[k].rc = 0)
        => /\ BitOr(calls[k].type.modifiers, TypeModifiers_CONST) # calls[k].type.modifiers
           /\ calls[k].type.hash = hash_type([calls[k].type EXCEPT !.modifiers = 0])

----------------------------------------------------------------------------
(* The cursor *)

\* the events of call k that tell where the cursor went
Moves(k) == {i \in DOMAIN calls[k].events : calls[k].events[i].ev \in {"call", "member"}}

\* C30: every parse_type call returns, on well-formed and malformed encodings
\* alike: the call itself and every call nested in it ends with the cursor
\* not before where it began and not past the terminating NUL, and every
\* iteration of a member loop that did not return failure left the cursor
\* further on than it found it.
C30_CursorAdvances ==
    \A k \in DOMAIN calls :
        /\ calls[k].rc \in {0, 1, 2}
        /\ calls[k].pos >= 1
        /\ calls[k].pos <= Len(Encodings[calls[k].enc]) + 1
        /\ \A i \in Moves(k) :
            /\ calls[k].events[i].from >= 1
            /\ calls[k].events[i].from <= calls[k].events[i].to
            /\ calls[k].events[i].to <= Len(Encodings[calls[k].enc]) + 1
            /\ calls[k].events[i].ev = "member"
                => calls[k].events[i].from < calls[k].events[i].to

\* a call on a truncated encoding returned 2: a member loop had gone round,
\* and the call for the next member began and ended at the terminating NUL
C30_Witness ==
    \E k \in DOMAIN calls :
        /\ calls[k].enc \in Malformed
        /\ calls[k].rc = 2
        /\ calls[k].pos = Len(Encodings[calls[k].enc]) + 1
        /\ \E i \in Moves(k) : calls[k].events[i].ev = "member"
        /\ \E i \in Moves(k) :
            /\ calls[k].events[i].ev = "call"
            /\ calls[k].events[i].from = Len(Encodings[calls[k].enc]) + 1
            /\ calls[k].events[i].to = Len(Encodings[calls[k].enc]) + 1
----------------------------------------------------------------------------
(* Text, arrays and keys in the encoder's output                           *)

\* the JSON escape of one byte of text: the double quote, the backslash and
\* the bytes outside printable ASCII are escaped, the others stand as they are
EscapedByte(c) ==
    CASE c = 34 -> Chars("\\") \o <<34>>
      [] c = 92 -> Chars("\\\\")
      [] c = 10 -> Chars("\\n")
      [] c = 13 -> Chars("\\r")
      [] c = 9 -> Chars("\\t")
      [] c < 32 \/ c > 126 ->
            Chars("\\u00") \o <<HexDigits[(c \div 16) + 1], HexDigits[(c % 16) + 1]>>
      [] OTHER -> <<c>>

RECURSIVE EscapedText(_, _)
EscapedText(bytes, i) ==
    IF i > Len(bytes) THEN <<>> ELSE EscapedByte(bytes[i]) \o EscapedText(bytes, i + 1)

\* the text field f of record t holds in mem: as many bytes as its sized_by
\* companion says, or the bytes up to the terminator
TextOf(t, mem, f) ==
    IF is_sized(t, t.fields[f])
    THEN SubSeq(Pointee(mem, t.fields[f].offset).bytes, 1,
                FieldContent(t, mem, sized_length_index(t, t.fields[f])).bytes[1])
    ELSE CString(Pointee(mem, t.fields[f].offset).bytes, 1, <<>>)

\* the serialised text fields of record t that hold a text in mem
TextFields(t, mem) ==
    {f \in Serialised(t) : IsCharPointer(t.fields[f].type) /\ ~IsNullAt(mem, t.fields[f].offset)}

\* C21: value_to_json prints every narrow-text-pointer value, sized_by or not,
\* as a quoted string in which the double quote, the backslash, newline,
\* carriage return, tab and every byte outside printable ASCII are escaped and
\* all other bytes stand unchanged.
C21_TextEscaped ==
    (result.kind = "encoded" /\ result.rc = 0) =>
        \A f \in TextFields(JobType(job), JobValue(job)) :
            TextBetween(result.out, KeyPosOf(result.out, JobType(job), f) + 1,
                        NextAt(result.out, 1, KeyPosOf(result.out, JobType(job), f)) - 1)
                = <<34>> \o EscapedText(TextOf(JobType(job), JobValue(job), f), 1) \o <<34>>

\* C22: for an array type of declared length N, value_to_json writes a JSON
\* array of exactly the N elements, and json_to_value succeeds exactly when the
\* JSON array has N elements (fewer or more fail), the i-th decoded element
\* standing at offset i times the element size.
C22_ArrayLength ==
    result.kind = "array" =>
        IF job.encode
        THEN result.rc = 0 /\ result.text = ArrayText(ArrayTypes[job.type].length)
        ELSE /\ result.rc = 0 <=> job.n = ArrayTypes[job.type].length
             /\ result.rc = 0
                => \A i \in 0..(job.n - 1) :
                      Load(result.mem, i * type_size(ArrayTypes[job.type].sub[1]),
                           type_size(ArrayTypes[job.type].sub[1]))
                        = FromNat(ArrayNumbers[i + 1], type_size(ArrayTypes[job.type].sub[1]))

\* [3, 1, 4] has been decoded into short[3]
C22_Witness ==
    /\ result.kind = "array"
    /\ ~job.encode
    /\ ArrayTypes[job.type].length = 3
    /\ job.n = 3
    /\ result.rc = 0
    /\ result.mem.bytes = <<3, 0, 1, 0, 4, 0>>


----------------------------------------------------------------------------
(* The key of a member *)

\* the serialise_as_ modifiers of a field, and the key the field goes by: what
\* follows the prefix in the first of them, else the field's name
Renames(f) == {k \in DOMAIN f.modifiers : HasPrefixAt(f.modifiers[k], 1, "serialise_as_")}

WrittenAs(f) ==
    IF Renames(f) = {} THEN f.name[1]
    ELSE SubSeq(f.modifiers[CHOOSE k \in Renames(f) : \A x \in Renames(f) : k <= x],
                14, Len(f.modifiers[CHOOSE k \in Renames(f) : \A x \in Renames(f) : k <= x]))

\* the key of every member written is the one its field goes by
KeysWritten(t, out) ==
    \A k \in 1..Cardinality(Serialised(t)) :
        out[KeyPos(out, k)].text
            = <<34>> \o Chars(WrittenAs(t.fields[NthSerialised(t, k)])) \o <<34, 58, 32>>

\* no field declared before f goes by the same key
FirstWithKey(t, f) ==
    \A g \in Named(t) : g < f => WrittenAs(t.fields[g]) # WrittenAs(t.fields[f])

\* C23 as stated: a field with a serialise_as_<key> modifier is written under
\* <key>, a successful decode stores into it the member keyed <key> and no
\* member keyed by its own name, and a successful decode of what the encoder
\* wrote has matched every member to the field it was written for.
C23_SerialiseAsKey ==
    /\ (result.kind = "encoded" /\ result.rc = 0) => KeysWritten(JobType(job), result.out)
    /\ (result.kind = "decoded" /\ result.rc = 0) =>
            \A f \in Named(JobType(job)) :
                Renames(JobType(job).fields[f]) # {} =>
                    (result.seen[f] <=> FirstPos(job, WrittenAs(JobType(job).fields[f])) # 0)
    /\ (result.kind = "redecoded" /\ result.rc = 0) =>
            \A f \in Serialised(JobType(job)) : result.seen[f]

\* C23: a field with a serialise_as_<key> modifier is written under <key>; a
\* successful decode stores into it the first member keyed <key>, and no
\* member keyed by its own name, when no earlier field goes by <key>, and
\* leaves it alone otherwise; a successful decode of what the encoder wrote
\* has matched each key to the first field that goes by it.
C23_SerialiseAsFirstKey ==
    /\ (result.kind = "encoded" /\ result.rc = 0) => KeysWritten(JobType(job), result.out)
    /\ (result.kind = "decoded" /\ result.rc = 0) =>
            \A f \in Named(JobType(job)) :
                Renames(JobType(job).fields[f]) # {} =>
                    IF /\ FirstWithKey(JobType(job), f)
                       /\ FirstPos(job, WrittenAs(JobType(job).fields[f])) # 0
                    THEN /\ result.seen[f]
                         /\ FieldInteger(JobType(job), result.mem, f)
                                = FromNat(CountAt(job, FirstPos(job, WrittenAs(JobType(job).fields[f]))), 8)
                    ELSE /\ ~result.seen[f]
                         /\ Unchanged(job, JobType(job), result, f)
    /\ (result.kind = "redecoded" /\ result.rc = 0) =>
            \A f \in Serialised(JobType(job)) :
                Renames(JobType(job).fields[f]) # {} =>
                    (result.seen[f] <=> FirstWithKey(JobType(job), f))

\* a decode stored the member keyed "sea" into the field named c of a record
\* that holds 17 there, ahead of a member keyed "c"
C23_Witness ==
    /\ result.kind = "decoded"
    /\ result.rc = 0
    /\ \E f \in Named(JobType(job)) :
        /\ Renames(JobType(job).fields[f]) # {}
        /\ JobType(job).fields[f].name # <<WrittenAs(JobType(job).fields[f])>>
        /\ FirstPos(job, JobType(job).fields[f].name[1]) # 0
        /\ FirstPos(job, WrittenAs(JobType(job).fields[f])) # 0
        /\ FieldInteger(JobType(job), JobTarget(job), f) = FromNat(17, 8)
        /\ FieldInteger(JobType(job), result.mem, f) = FromNat(4, 8)

----------------------------------------------------------------------------
(* Union-member resolution *)

\* the members of the union of the records R: the kind of each, its tag_value
\* literal, the number the literal denotes, and its name
SelectMembers ==
    << [code |-> "s", literal |-> <<"1">>, number |-> <<1>>, name |-> "a"],
       [code |-> "i", literal |-> <<"1">>, number |-> <<1>>, name |-> "b"],
       [code |-> "c", literal |-> <<"0x2">>, number |-> <<2>>, name |-> "c"],
       [code |-> "q", literal |-> <<"-1">>, number |-> <<0 - 1>>, name |-> "d"],
       [code |-> "C", literal |-> <<>>, number |-> <<>>, name |-> "e"] >>

\* the literal of member m equals the discriminator of case c: as text for a
\* text discriminator, as a number otherwise
LiteralEquals(m, c) ==
    IF SelectCases[c].code = "*"
    THEN SelectCases[c].text # <<>> /\ SelectMembers[m].literal = SelectCases[c].text
    ELSE SelectMembers[m].number # <<>> /\ SelectMembers[m].number = SelectCases[c].value

\* the same, a member without a literal standing under its name for a text
\* discriminator
LiteralOrNameEquals(m, c) ==
    \/ LiteralEquals(m, c)
    \/ /\ SelectCases[c].code = "*"
       /\ SelectMembers[m].literal = <<>>
       /\ SelectCases[c].text = <<SelectMembers[m].name>>

\* the first of the members ms, 0 when there is none
FirstOf(ms) == IF ms = {} THEN 0 ELSE CHOOSE m \in ms : \A x \in ms : m <= x

\* the outcome of the job is that of member m selected (of none, for m = 0):
\* the encoder wrote under "u" what it writes for member m alone; the decoder
\* stored the payload in the first bytes of the union, as many as member m
\* has, when member m can hold it, and failed when it cannot
SelectedAs(m) ==
    IF m = 0 THEN result.rc # 0
    ELSE IF job.encode
    THEN /\ result.rc = 0
         /\ TextBetween(result.out, KeyPos(result.out, 2) + 1, Len(result.out) - 1)
                = MemberText(SelectType(SelectCases[job.case].code), result.mem, 2, m)
    ELSE IF SelectMembers[m].code = "c" /\ job.payload > 127 THEN result.rc # 0
    ELSE /\ result.rc = 0
         /\ Load(result.mem, SelectType(SelectCases[job.case].code).fields[2].offset, 8)
                = FromNat(job.payload, primitive_type_size(SelectMembers[m].code))
                  \o Repeat(17, 8 - primitive_type_size(SelectMembers[m].code))

\* C26 as stated: the encoder and the decoder select the first member whose
\* tag_value literal equals the discriminator, and fail when there is none.
C26_FirstLiteralEqual ==
    result.kind = "selected" =>
        SelectedAs(FirstOf({m \in DOMAIN SelectMembers : LiteralEquals(m, job.case)}))

\* C26: the encoder and the decoder select the first member whose tag_value
\* literal equals the discriminator or, for a text discriminator, that has no
\* literal and is named as the text reads, and fail when there is none.
C26_FirstLiteralOrNameEqual ==
    result.kind = "selected" =>
        SelectedAs(FirstOf({m \in DOMAIN SelectMembers : LiteralOrNameEquals(m, job.case)}))

\* the decoder stored 200 as a short for the discriminator 1, which is the
\* literal of the members a (a short) and b (an int)
C26_Witness ==
    /\ result.kind = "selected"
    /\ ~job.encode
    /\ result.rc = 0
    /\ job.payload = 200
    /\ {m \in DOMAIN SelectMembers : LiteralEquals(m, job.case)} = {1, 2}
    /\ Load(result.mem, SelectType(SelectCases[job.case].code).fields[2].offset, 8)
        = <<200, 0, 17, 17, 17, 17, 17, 17>>

----------------------------------------------------------------------------
(* A key that stands more than once *)

\* member i of the document has the key of an earlier member
LaterOccurrence(j, i) == \E k \in 1..(i - 1) : KeyAt(j, k) = KeyAt(j, i)

\* the document without the later occurrences of its keys, from member i on
RECURSIVE FirstOccurrences(_, _)
FirstOccurrences(j, i) ==
    IF i > Len(j.doc) THEN <<>>
    ELSE (IF LaterOccurrence(j, i) THEN <<>> ELSE <<j.doc[i]>>) \o FirstOccurrences(j, i + 1)

\* the first field of the record that goes by the key, 0 when there is none
FieldByKey(t, key) ==
    FirstOf({f \in Named(t) : WrittenAs(t.fields[f]) = key})

\* the sized_by fields whose member stands before the first member of their
\* length f, which is then derived from them
DerivedFrom(j, t, f) ==
    {g \in Named(t) :
        /\ IsSizedPair(t, g, f)
        /\ ~field_has_modifier(t.fields[g], "no_deserialise")
        /\ ~field_has_modifier(t.fields[f], "no_deserialise")
        /\ FirstPos(j, KeyOf(t, g)) # 0
        /\ FirstPos(j, KeyOf(t, g)) < FirstPos(j, KeyOf(t, f))}

\* the later occurrences of a key whose literal is not the length that was
\* derived for its field
Contradicting(j, t) ==
    {i \in DOMAIN j.doc :
        /\ LaterOccurrence(j, i)
        /\ FieldByKey(t, KeyAt(j, i)) # 0
        /\ \E g \in DerivedFrom(j, t, FieldByKey(t, KeyAt(j, i))) :
                CountAt(j, i) # CountAt(j, FirstPos(j, KeyOf(t, g)))}

\* C28: when a key stands more than once in the object, the decode fails if a
\* later occurrence gives a length other than the one derived from a sibling
\* array or string for its field, and otherwise ends as the decode of the
\* object without the later occurrences does: they are neither stored nor
\* looked at.
C28_FirstOccurrenceOnly ==
    (result.kind = "decoded" /\ \E i \in DOMAIN job.doc : LaterOccurrence(job, i)) =>
        IF Contradicting(job, JobType(job)) # {} THEN result.rc # 0
        ELSE SameOutcome(result, DecodeDoc(job, FirstOccurrences(job, 1)))

\* a decode succeeded on an object whose second member for a key is a string
\* where the field takes a number: the field holds the number of the first
C28_Witness ==
    /\ result.kind = "decoded"
    /\ result.rc = 0
    /\ \E i \in DOMAIN job.doc :
        /\ LaterOccurrence(job, i)
        /\ JobPool(job)[job.doc[i]].text = Json("'x'")
        /\ FieldByKey(JobType(job), KeyAt(job, i)) # 0
        /\ JobType(job).fields[FieldByKey(JobType(job), KeyAt(job, i))].type.type = "PRIMITIVE"
        /\ FieldInteger(JobType(job), result.mem, FieldByKey(JobType(job), KeyAt(job, i)))
                = FromNat(6, 8)
----------------------------------------------------------------------------
(* Structural hashes: record definitions reflected in pairs, and $cast     *)

\* the names and the member types of the record definitions
HashNames == {"A", "B"}
HashMemberTypes == {"c", "d", "i"}

\* the encoding of a record definition: its name and its members' types
RecordEncoding(d) ==
    "{" \o d.name \o "=" \o d.members[1]
        \o (IF Len(d.members) > 1 THEN d.members[2] ELSE "") \o "}"

RecordEncodings ==
    {RecordEncoding([name |-> n, members |-> m]) :
        n \in HashNames, m \in UNION {[1..k -> HashMemberTypes] : k \in 1..2}}

\* the encodings of the primitive types, with and without the marker
PrimitiveEncodings == PrimitiveCodes \cup {"r" \o c : c \in PrimitiveCodes}

\* the address of the object a Value refers to
ValueData == 64

HashJobs ==
    {[kind |-> "hash", a |-> a, b |-> b] : a \in RecordEncodings, b \in RecordEncodings}
    \cup {[kind |-> "cast", a |-> a, b |-> b] :
            a \in PrimitiveEncodings, b \in PrimitiveEncodings}

InitHash ==
    /\ type_cache = <<>>
    /\ calls = <<>>
    /\ job \in HashJobs
    /\ result = NoResult

\* $reflect of a type with encoding s while the cache holds cache
reflect(s, cache) == parse_type(s, 1, ZeroType, cache, 0)

\* the two definitions reflected one after the other
ReflectPair ==
    /\ job.kind = "hash"
    /\ result.kind = "none"
    /\ result' = [kind |-> "hashed",
                  rc |-> <<reflect(job.a, type_cache).rc,
                           reflect(job.b,
                                   reflect(job.a, type_cache).cache).rc>>,
                  hash |-> <<reflect(job.a, type_cache).type.hash,
                             reflect(job.b,
                                     reflect(job.a, type_cache).cache).type.hash>>]
    /\ type_cache' = reflect(job.b,
                             reflect(job.a, type_cache).cache).cache
    /\ UNCHANGED <<calls, job>>

\* $cast(val, T): val.data when the hashes are equal, else nullptr (0)
cast(val, T) == IF val.type.hash # T.hash THEN 0 ELSE val.data

\* $cast(val, T) for val = $valueof of an object of the type encoded job.a
\* and T the type encoded job.b
Cast ==
    /\ job.kind = "cast"
    /\ result.kind = "none"
    /\ result' = [kind |-> "cast",
                  ptr |-> cast([type |-> reflect(job.a, type_cache).type, data |-> ValueData],
                               reflect(job.b, type_cache).type)]
    /\ UNCHANGED <<type_cache, calls, job>>

NextHash == ReflectPair \/ Cast

SpecHash == InitHash /\ [][NextHash]_vars

\* C24: two record definitions that differ in name, in some member's type or
\* in the order of their members have different hashes.
C24_DefinitionsHashApart ==
    (result.kind = "hashed" /\ result.rc = <<0, 0>> /\ job.a # job.b) =>
        result.hash[1] # result.hash[2]

\* the type code of a primitive encoding, past the marker
CodeOf(s) == IF At(s, 1) = "r" THEN At(s, 2) ELSE At(s, 1)

\* C25: $cast of a Value to the type it was made from gives its data pointer,
\* and to a different primitive type, each with or without the immutability
\* marker, gives null.
C25_CastOnlyToOwnType ==
    result.kind = "cast" =>
        /\ job.a = job.b => result.ptr = ValueData
        /\ CodeOf(job.a) # CodeOf(job.b) => result.ptr = 0

====
